---- MODULE Spec2Model ----
(***************************************************************************)
(* A model of the shescape escaping engine vendored by git-message-action, *)
(* and of the action's use of it.                                          *)
(*                                                                         *)
(* A JavaScript string is a sequence of UTF-16 code units.  A code unit is *)
(* written as a token: "a", "-", "'" stand for themselves, "NUL", "BS",    *)
(* "ESC", "CSI" are U+0000, U+0008, U+001B, U+009B, "CR", "LF", "TAB",     *)
(* "SP" are carriage return, line feed, tab and space, "BT" is the        *)
(* backtick, "NBSP" is U+00A0,                                             *)
(* "NEL" is U+0085, "agrave" is U+00E0, "LSQ" "RSQ" "LOWSQ" "REVSQ" are    *)
(* U+2018 U+2019 U+201A U+201B, "LDQ" "RDQ" "LOWDQ" are U+201C U+201D      *)
(* U+201E, and "D83E" "DD20" are the surrogate pair of U+1F920.            *)
(*                                                                         *)
(* A file path is a sequence of its components, <<"bin", "sh">> for        *)
(* /bin/sh; its base name is the last of them.                             *)
(***************************************************************************)
EXTENDS Naturals, Integers, Sequences, FiniteSets, TLC

\* The longest argument built from a dialect's core alphabet.
MaxLen == 3

\* The longest argument built from a dialect's full alphabet.
MaxPair == 2

\* The longest array handed to escapeAll / quoteAll.
MaxArr == 2

----------------------------------------------------------------------------
(* Strings *)

RECURSIVE Flat(_)
Flat(ss) == IF ss = <<>> THEN <<>> ELSE Head(ss) \o Flat(Tail(ss))

\* String.prototype.replace with a global regular expression whose every
\* match is decided at one index of the subject: R(s, i) is what index i of
\* the subject contributes to the result.
ReplaceEach(s, R(_, _)) == Flat([i \in 1..Len(s) |-> R(s, i)])

Rep(c, n) == [i \in 1..n |-> c]

\* The number of consecutive c right before index i of s.
RECURSIVE RunBefore(_, _, _)
RunBefore(s, i, c) ==
  IF i > 1 /\ s[i - 1] = c THEN 1 + RunBefore(s, i - 1, c) ELSE 0

\* The length of the longest prefix of s made of characters of set cs.
RECURSIVE LeadingRun(_, _)
LeadingRun(s, cs) ==
  IF s # <<>> /\ Head(s) \in cs THEN 1 + LeadingRun(Tail(s), cs) ELSE 0

Drop(s, n) == SubSeq(s, n + 1, Len(s))

RECURSIVE StrUpTo(_, _)
StrUpTo(cs, n) ==
  IF n = 0 THEN {<<>>}
  ELSE LET shorter == StrUpTo(cs, n - 1)
       IN shorter \cup {Append(s, c) : s \in shorter, c \in cs}

\* The regular expression class \s, within the code units written above.
JsWhitespace == {"TAB", "LF", "CR", "SP", "NBSP"}

\* The code point of a code unit.
CodeUnit(c) ==
  CASE c = "NUL" -> 0 [] c = "BS" -> 8 [] c = "TAB" -> 9 [] c = "LF" -> 10
    [] c = "CR" -> 13 [] c = "ESC" -> 27 [] c = "SP" -> 32 [] c = "!" -> 33
    [] c = "\"" -> 34 [] c = "#" -> 35 [] c = "$" -> 36 [] c = "%" -> 37
    [] c = "&" -> 38 [] c = "'" -> 39 [] c = "(" -> 40 [] c = ")" -> 41
    [] c = "*" -> 42
    [] c = "," -> 44 [] c = "-" -> 45 [] c = "." -> 46 [] c = "/" -> 47
    [] c = "0" -> 48 [] c = "1" -> 49 [] c = "2" -> 50 [] c = "3" -> 51
    [] c = "4" -> 52 [] c = "5" -> 53 [] c = "6" -> 54 [] c = "7" -> 55
    [] c = "8" -> 56 [] c = "9" -> 57 [] c = ":" -> 58 [] c = ";" -> 59
    [] c = "<" -> 60 [] c = "=" -> 61 [] c = ">" -> 62 [] c = "?" -> 63
    [] c = "@" -> 64 [] c = "B" -> 66 [] c = "O" -> 79
    [] c = "[" -> 91 [] c = "\\" -> 92 [] c = "]" -> 93
    [] c = "^" -> 94 [] c = "BT" -> 96 [] c = "a" -> 97 [] c = "b" -> 98
    [] c = "e" -> 101 [] c = "f" -> 102 [] c = "i" -> 105 [] c = "l" -> 108
    [] c = "n" -> 110 [] c = "o" -> 111 [] c = "v" -> 118
    [] c = "r" -> 114 [] c = "s" -> 115 [] c = "t" -> 116 [] c = "u" -> 117
    [] c = "x" -> 120
    [] c = "{" -> 123 [] c = "|" -> 124 [] c = "}" -> 125 [] c = "~" -> 126
    [] c = "NEL" -> 133 [] c = "CSI" -> 155 [] c = "NBSP" -> 160
    [] c = "agrave" -> 224 [] c = "LSQ" -> 8216 [] c = "RSQ" -> 8217
    [] c = "LOWSQ" -> 8218 [] c = "REVSQ" -> 8219 [] c = "LDQ" -> 8220
    [] c = "RDQ" -> 8221 [] c = "LOWDQ" -> 8222
    [] c = "D83E" -> 55358 [] c = "DD20" -> 56608

\* TextEncoder.encode of a one-unit string: the UTF-8 bytes of the code
\* point, and those of U+FFFD for a surrogate, which is no scalar value.
Utf8Encode(c) ==
  LET cp == CodeUnit(c)
  IN IF cp < 128 THEN <<cp>>
     ELSE IF cp < 2048 THEN <<192 + (cp \div 64), 128 + (cp % 64)>>
     ELSE IF cp >= 55296 /\ cp <= 57343 THEN <<239, 191, 189>>
     ELSE <<224 + (cp \div 4096), 128 + ((cp \div 64) % 64), 128 + (cp % 64)>>

\* arg.replace(/[cs]/u, ""), without the g flag: the first unit of set cs
\* removed.
RemoveFirstChar(s, cs) ==
  IF \E i \in 1..Len(s) : s[i] \in cs
  THEN LET i == CHOOSE i \in 1..Len(s) :
                  s[i] \in cs /\ \A j \in 1..(i - 1) : s[j] \notin cs
       IN SubSeq(s, 1, i - 1) \o SubSeq(s, i + 1, Len(s))
  ELSE s

\* arg.replace(/[cs]/gu, ""): every unit of set cs removed.
RemoveChars(s, cs) == SelectSeq(s, LAMBDA c : c \notin cs)

\* arg.replace(/\r/gu, ""): every carriage return removed.
RemoveEveryCR(arg) == SelectSeq(arg, LAMBDA c : c # "CR")

\* arg.replace(/\r(?!\n)/gu, ""): every carriage return that no line feed
\* follows removed.
RemoveLoneCR(arg) ==
  ReplaceEach(arg, LAMBDA s, i :
    IF s[i] = "CR" /\ ~(i < Len(s) /\ s[i + 1] = "LF") THEN <<>> ELSE <<s[i]>>)

\* arg.replace(/\n/gu, ""): every line feed removed.
LfRemoved(arg) == SelectSeq(arg, LAMBDA c : c # "LF")

\* arg.replace(/\n/gu, " ")
LfToSpace(arg) == [i \in 1..Len(arg) |-> IF arg[i] = "LF" THEN "SP" ELSE arg[i]]

\* arg.replace(/([cs])/gu, "p$1"): every unit of set cs prefixed by p.
PrefixChars(arg, cs, p) ==
  ReplaceEach(arg, LAMBDA s, i : IF s[i] \in cs THEN <<p, s[i]>> ELSE <<s[i]>>)

\* arg.replace(/(?<=^|[ws])([cs])/gu, "p$1"): every unit of set cs that
\* starts the subject or follows a unit of set ws prefixed by p.
PrefixCharsAtWordStart(arg, cs, ws, p) ==
  ReplaceEach(arg, LAMBDA s, i :
    IF s[i] \in cs /\ (i = 1 \/ s[i - 1] \in ws) THEN <<p, s[i]>> ELSE <<s[i]>>)

\* arg.replace(/(?<!\\)(\\*)c/gu, "$1$1" + repl) for a unit c: the run of
\* backslashes before each c doubled, and c replaced by repl.
DoubleBackslashesBefore(arg, cs, repl(_)) ==
  ReplaceEach(arg, LAMBDA s, i :
    IF s[i] \in cs THEN Rep("\\", RunBefore(s, i, "\\")) \o repl(s[i])
    ELSE <<s[i]>>)

\* arg.replace(/(?<!\\)(\\+)$/gu, "$1$1"): a trailing run of backslashes
\* doubled.
DoubleTrailingBackslashes(arg) ==
  IF arg # <<>> /\ arg[Len(arg)] = "\\"
  THEN arg \o Rep("\\", 1 + RunBefore(arg, Len(arg), "\\"))
  ELSE arg

\* The four control characters every dialect removes.
ControlChars == {"NUL", "BS", "ESC", "CSI"}

----------------------------------------------------------------------------
(* unix/dash.js *)

\* escapeArg without the expression that escapes "#" and "~" at the start
\* of a word.
DashEscapeArgNoWordStart(arg) ==
  LET s1 == RemoveChars(arg, ControlChars \cup {"CR"})
      s2 == LfToSpace(s1)
      s3 == PrefixChars(s2, {"\\"}, "\\")
      s5 == PrefixChars(s3, {"\"", "$", "&", "'", "(", ")", "*", ";", "<", ">",
                             "?", "BT", "|"}, "\\")
  IN PrefixChars(s5, {"TAB", "SP"}, "\\")

DashEscapeArg(arg) ==
  LET s1 == RemoveChars(arg, ControlChars \cup {"CR"})
      s2 == LfToSpace(s1)
      s3 == PrefixChars(s2, {"\\"}, "\\")
      s4 == PrefixCharsAtWordStart(s3, {"#", "~"}, JsWhitespace, "\\")
      s5 == PrefixChars(s4, {"\"", "$", "&", "'", "(", ")", "*", ";", "<", ">",
                             "?", "BT", "|"}, "\\")
  IN PrefixChars(s5, {"TAB", "SP"}, "\\")

\* escapeArgForQuoted with the quote escaped by a backslash inside the
\* quotes, where a backslash is literal.
DashEscapeArgForQuotedBackslash(arg) ==
  LET s1 == RemoveChars(arg, ControlChars)
      s2 == RemoveLoneCR(s1)
  IN ReplaceEach(s2, LAMBDA s, i :
       IF s[i] = "'" THEN <<"\\", "'">> ELSE <<s[i]>>)

DashEscapeArgForQuoted(arg) ==
  LET s1 == RemoveChars(arg, ControlChars)
      s2 == RemoveLoneCR(s1)
  IN ReplaceEach(s2, LAMBDA s, i :
       IF s[i] = "'" THEN <<"'", "\\", "'", "'">> ELSE <<s[i]>>)

DashQuoteArg(arg) == <<"'">> \o arg \o <<"'">>

\* stripFlagPrefix with /^-/ for /^-+/: one "-" removed.
DashStripFlagPrefixOnce(arg) ==
  IF arg # <<>> /\ arg[1] = "-" THEN Tail(arg) ELSE arg

DashStripFlagPrefix(arg) == Drop(arg, LeadingRun(arg, {"-"}))

----------------------------------------------------------------------------
(* unix/zsh.js *)

ZshEscapeArg(arg) ==
  LET s1 == RemoveChars(arg, ControlChars \cup {"CR"})
      s2 == LfToSpace(s1)
      s3 == PrefixChars(s2, {"\\"}, "\\")
      s4 == PrefixCharsAtWordStart(s3, {"#", "=", "~"}, JsWhitespace, "\\")
      s5 == PrefixChars(s4, {"\"", "$", "&", "'", "(", ")", "*", ";", "<", ">",
                             "?", "[", "]", "BT", "{", "|", "}"}, "\\")
  IN PrefixChars(s5, {"TAB", "SP"}, "\\")

ZshEscapeArgForQuoted(arg) ==
  LET s1 == RemoveChars(arg, ControlChars)
      s2 == RemoveLoneCR(s1)
  IN ReplaceEach(s2, LAMBDA s, i :
       IF s[i] = "'" THEN <<"'", "\\", "'", "'">> ELSE <<s[i]>>)

ZshQuoteArg(arg) == <<"'">> \o arg \o <<"'">>

ZshStripFlagPrefix(arg) == Drop(arg, LeadingRun(arg, {"-"}))

----------------------------------------------------------------------------
(* unix/csh.js *)

CshEscapeArg(arg) ==
  LET s1 == RemoveChars(arg, ControlChars \cup {"CR"})
      s2 == LfToSpace(s1)
      s3 == PrefixChars(s2, {"\\"}, "\\")
      s4 == PrefixCharsAtWordStart(s3, {"~"}, JsWhitespace, "\\")
      s5 == ReplaceEach(s4, LAMBDA s, i :
              IF s[i] = "!" /\ i # Len(s) THEN <<"\\", "!">> ELSE <<s[i]>>)
      s6 == PrefixChars(s5, {"\"", "#", "$", "&", "'", "(", ")", "*", ";", "<",
                             ">", "?", "[", "BT", "{", "|"}, "\\")
      s7 == PrefixChars(s6, {"TAB", "SP"}, "\\")
  IN ReplaceEach(s7, LAMBDA s, i :
       IF \E k \in 1..Len(Utf8Encode(s[i])) : Utf8Encode(s[i])[k] = 160
       THEN <<"'", s[i], "'">> ELSE <<s[i]>>)

CshEscapeArgForQuoted(arg) ==
  LET s1 == RemoveChars(arg, ControlChars \cup {"CR"})
      s2 == LfToSpace(s1)
      s3 == ReplaceEach(s2, LAMBDA s, i :
              IF s[i] = "'" THEN <<"'", "\\", "'", "'">> ELSE <<s[i]>>)
      s4 == IF Len(s3) >= 2 /\ s3[Len(s3) - 1] = "\\" /\ s3[Len(s3)] = "!"
            THEN SubSeq(s3, 1, Len(s3) - 2) \o <<"\\", "\\", "!">>
            ELSE s3
  IN ReplaceEach(s4, LAMBDA s, i :
       IF s[i] = "!" /\ i # Len(s) THEN <<"\\", "!">> ELSE <<s[i]>>)

CshQuoteArg(arg) == <<"'">> \o arg \o <<"'">>

CshStripFlagPrefix(arg) == Drop(arg, LeadingRun(arg, {"-"}))

----------------------------------------------------------------------------
(* unix/no-shell.js *)

\* escapeArg without its second replace: every carriage return is kept.
NoShellEscapeArgKeepingCR(arg) == RemoveChars(arg, ControlChars)

NoShellEscapeArg(arg) == RemoveLoneCR(RemoveChars(arg, ControlChars))

NoShellStripFlagPrefix(arg) == Drop(arg, LeadingRun(arg, {"-"}))

----------------------------------------------------------------------------
(* win/cmd.js *)

\* The .split("").map(...).join("") of escapeArg: the units of s from index
\* i on, shouldEscapeSpecialChar being the flag's value on reaching i.
RECURSIVE CmdEscapeSpecialChars(_, _, _)
CmdEscapeSpecialChars(s, i, shouldEscapeSpecialChar) ==
  IF i > Len(s) THEN <<>>
  ELSE IF s[i] = "\""
    THEN <<s[i]>> \o CmdEscapeSpecialChars(s, i + 1, ~shouldEscapeSpecialChar)
  ELSE IF shouldEscapeSpecialChar /\ s[i] \in {"%", "&", "<", ">", "^", "|"}
    THEN <<"^", s[i]>> \o CmdEscapeSpecialChars(s, i + 1, shouldEscapeSpecialChar)
  ELSE <<s[i]>> \o CmdEscapeSpecialChars(s, i + 1, shouldEscapeSpecialChar)

\* escapeArg with shouldEscapeSpecialChar initially false.
CmdEscapeArgStartingQuoted(arg) ==
  LET s1 == RemoveChars(arg, ControlChars \cup {"CR"})
      s2 == LfToSpace(s1)
      s3 == DoubleBackslashesBefore(s2, {"\""}, LAMBDA c : <<"\\", "\"">>)
  IN CmdEscapeSpecialChars(s3, 1, FALSE)

CmdEscapeArg(arg) ==
  LET s1 == RemoveChars(arg, ControlChars \cup {"CR"})
      s2 == LfToSpace(s1)
      s3 == DoubleBackslashesBefore(s2, {"\""}, LAMBDA c : <<"\\", "\"">>)
  IN CmdEscapeSpecialChars(s3, 1, TRUE)

CmdEscapeArgForQuoted(arg) ==
  DoubleBackslashesBefore(CmdEscapeArg(arg), {"TAB", "SP"}, LAMBDA c : <<c>>)

\* arg.replace(/([\t ]+)/gu, '"$1"'): every run of tabs and spaces wrapped
\* in double quotes.
CmdQuoteArg(arg) ==
  ReplaceEach(arg, LAMBDA s, i :
    IF s[i] \in {"TAB", "SP"}
    THEN (IF i = 1 \/ s[i - 1] \notin {"TAB", "SP"} THEN <<"\"">> ELSE <<>>)
         \o <<s[i]>>
         \o (IF i = Len(s) \/ s[i + 1] \notin {"TAB", "SP"} THEN <<"\"">> ELSE <<>>)
    ELSE <<s[i]>>)

\* arg.replace(/^(?:-+|\/+)/gu, ""): a leading run of "-", or else a leading
\* run of "/", removed.
CmdStripFlagPrefix(arg) ==
  IF arg # <<>> /\ arg[1] = "-" THEN Drop(arg, LeadingRun(arg, {"-"}))
  ELSE IF arg # <<>> /\ arg[1] = "/" THEN Drop(arg, LeadingRun(arg, {"/"}))
  ELSE arg

----------------------------------------------------------------------------
(* win/powershell.js *)

\* The class [\s\u0085] of the PowerShell expressions.
PowerShellWhitespace == JsWhitespace \cup {"NEL"}

\* The class [*1-6] of the redirection expression.
PowerShellRedirectPrefix == {"*", "1", "2", "3", "4", "5", "6"}

PowerShellEscapeArg(arg) ==
  LET s1 == RemoveChars(arg, ControlChars \cup {"CR"})
      s2 == LfToSpace(s1)
      s3 == PrefixChars(s2, {"BT"}, "BT")
      \* /(?<=^|[\s\u0085])([*1-6]?)(>)/gu -> "$1`$2"
      s4 == ReplaceEach(s3, LAMBDA s, i :
              IF s[i] = ">"
                 /\ \/ i = 1
                    \/ s[i - 1] \in PowerShellWhitespace
                    \/ /\ s[i - 1] \in PowerShellRedirectPrefix
                       /\ (i = 2 \/ s[i - 2] \in PowerShellWhitespace)
              THEN <<"BT", ">">> ELSE <<s[i]>>)
      s5 == PrefixCharsAtWordStart(s4, {"#", "-", ":", "<", "@", "]"},
                                   PowerShellWhitespace, "BT")
      s6 == PrefixChars(s5, {"$", "&", "'", "(", ")", ",", ";", "{", "|", "}",
                             "LSQ", "RSQ", "LOWSQ", "REVSQ", "LDQ", "RDQ",
                             "LOWDQ"}, "BT")
      s7 == IF \E i \in 1..Len(s6) :
                 /\ s6[i] \in PowerShellWhitespace
                 /\ i > LeadingRun(s6, PowerShellWhitespace)
            THEN DoubleTrailingBackslashes(
                   DoubleBackslashesBefore(s6, {"\""},
                     LAMBDA c : <<"BT", "\"", "BT", "\"">>))
            ELSE DoubleBackslashesBefore(s6, {"\""},
                   LAMBDA c : <<"\\", "BT", "\"">>)
  IN PrefixChars(s7, PowerShellWhitespace, "BT")

\* escapeArgForQuoted doubling the ASCII single quote alone.
PowerShellEscapeArgForQuotedAscii(arg) ==
  LET s1 == RemoveChars(arg, ControlChars)
      s2 == RemoveLoneCR(s1)
      s3 == ReplaceEach(s2, LAMBDA s, i :
              IF s[i] = "'" THEN <<s[i], s[i]>> ELSE <<s[i]>>)
  IN IF \E i \in 1..Len(s3) : s3[i] \in PowerShellWhitespace
     THEN DoubleTrailingBackslashes(
            DoubleBackslashesBefore(s3, {"\""}, LAMBDA c : <<"\"", "\"">>))
     ELSE DoubleBackslashesBefore(s3, {"\""}, LAMBDA c : <<"\\", "\"">>)

PowerShellEscapeArgForQuoted(arg) ==
  LET s1 == RemoveChars(arg, ControlChars)
      s2 == RemoveLoneCR(s1)
      s3 == ReplaceEach(s2, LAMBDA s, i :
              IF s[i] \in {"'", "LSQ", "RSQ", "LOWSQ", "REVSQ"}
              THEN <<s[i], s[i]>> ELSE <<s[i]>>)
  IN IF \E i \in 1..Len(s3) : s3[i] \in PowerShellWhitespace
     THEN DoubleTrailingBackslashes(
            DoubleBackslashesBefore(s3, {"\""}, LAMBDA c : <<"\"", "\"">>))
     ELSE DoubleBackslashesBefore(s3, {"\""}, LAMBDA c : <<"\\", "\"">>)

PowerShellQuoteArg(arg) == <<"'">> \o arg \o <<"'">>

\* arg.replace(/^(?:`?-+|\/+)/gu, ""): a leading run of "-", with a backtick
\* before it or not, or else a leading run of "/", removed.
PowerShellStripFlagPrefix(arg) ==
  IF Len(arg) >= 2 /\ arg[1] = "BT" /\ arg[2] = "-"
  THEN Drop(arg, 1 + LeadingRun(Tail(arg), {"-"}))
  ELSE IF arg # <<>> /\ arg[1] = "-" THEN Drop(arg, LeadingRun(arg, {"-"}))
  ELSE IF arg # <<>> /\ arg[1] = "/" THEN Drop(arg, LeadingRun(arg, {"/"}))
  ELSE arg

----------------------------------------------------------------------------
(* The legacy (1.x) Unix table: escapeArgBash, escapeArgDash, escapeArgZsh *)

\* The index after the run of "{" that holds index i.
RECURSIVE BraceRunEnd(_, _)
BraceRunEnd(s, i) ==
  IF i <= Len(s) /\ s[i] = "{" THEN BraceRunEnd(s, i + 1) ELSE i

\* The lookahead (?=(?:[^{][^,.]*)?[,.][^}]*\}) at index p, which follows a
\* whole run of "{": the first "," or "." from p on exists and a "}" comes
\* after it.
BraceExpansionAhead(s, p) ==
  \E q \in p..Len(s) :
    /\ s[q] \in {",", "."}
    /\ \A k \in p..(q - 1) : s[k] \notin {",", "."}
    /\ \E j \in (q + 1)..Len(s) : s[j] = "}"

LegacyEscapeArgBash(arg, interpolation, quoted) ==
  LET result == RemoveChars(arg, {"NUL"})
  IN IF interpolation
     THEN LET s1 == PrefixChars(result, {"\\"}, "\\")
              s2 == LfToSpace(s1)
              s3 == PrefixCharsAtWordStart(s2, {"#", "~"}, JsWhitespace, "\\")
              s4 == PrefixChars(s3, {"*", "?"}, "\\")
              s5 == PrefixChars(s4, {"$", "&", ";", "|"}, "\\")
              s6 == PrefixChars(s5, {"(", ")", "<", ">"}, "\\")
              s7 == PrefixChars(s6, {"\"", "'", "BT"}, "\\")
              s8 == ReplaceEach(s7, LAMBDA s, i :
                      IF s[i] = "{" /\ BraceExpansionAhead(s, BraceRunEnd(s, i))
                      THEN <<"\\", "{">> ELSE <<s[i]>>)
          IN ReplaceEach(s8, LAMBDA s, i :
               IF /\ s[i] = "~"
                  /\ i > 1 /\ s[i - 1] \in {":", "="}
                  /\ \/ i = Len(s)
                     \/ s[i + 1] \in JsWhitespace \cup {"-", "/", ":", "="}
               THEN <<"\\", "~">> ELSE <<s[i]>>)
     ELSE IF quoted
     THEN ReplaceEach(result, LAMBDA s, i :
            IF s[i] = "'" THEN <<"'", "\\", "'", "'">> ELSE <<s[i]>>)
     ELSE result

LegacyEscapeArgDash(arg, interpolation, quoted) ==
  LET result == RemoveChars(arg, {"NUL"})
  IN IF interpolation
     THEN LET s1 == PrefixChars(result, {"\\"}, "\\")
              s2 == LfToSpace(s1)
              s3 == PrefixCharsAtWordStart(s2, {"#", "~"}, JsWhitespace, "\\")
              s4 == PrefixChars(s3, {"*", "?"}, "\\")
              s5 == PrefixChars(s4, {"$", "&", ";", "|"}, "\\")
              s6 == PrefixChars(s5, {"(", ")", "<", ">"}, "\\")
          IN PrefixChars(s6, {"\"", "'", "BT"}, "\\")
     ELSE IF quoted
     THEN ReplaceEach(result, LAMBDA s, i :
            IF s[i] = "'" THEN <<"'", "\\", "'", "'">> ELSE <<s[i]>>)
     ELSE result

LegacyEscapeArgZsh(arg, interpolation, quoted) ==
  LET result == RemoveChars(arg, {"NUL"})
  IN IF interpolation
     THEN LET s1 == PrefixChars(result, {"\\"}, "\\")
              s2 == LfToSpace(s1)
              s3 == PrefixCharsAtWordStart(s2, {"#", "=", "~"}, JsWhitespace, "\\")
              s4 == PrefixChars(s3, {"*", "?"}, "\\")
              s5 == PrefixChars(s4, {"$", "&", ";", "|"}, "\\")
              s6 == PrefixChars(s5, {"(", ")", "<", ">"}, "\\")
              s7 == PrefixChars(s6, {"\"", "'", "BT"}, "\\")
          IN PrefixChars(s7, {"[", "]", "{", "}"}, "\\")
     ELSE IF quoted
     THEN ReplaceEach(result, LAMBDA s, i :
            IF s[i] = "'" THEN <<"'", "\\", "'", "'">> ELSE <<s[i]>>)
     ELSE result

LegacyQuoteArg(arg) == <<"'">> \o arg \o <<"'">>

----------------------------------------------------------------------------
(* JavaScript values, results and errors *)

Undefined == [type |-> "undefined"]
Null == [type |-> "null"]
Bool(b) == [type |-> "boolean", bool |-> b]
Num(n) == [type |-> "number", num |-> n]
Str(s) == [type |-> "string", str |-> s]
Arr(elems) == [type |-> "array", elems |-> elems]
\* An object and its toString property: [kind |-> "missing"] (an object made
\* by Object.create(null)), [kind |-> "notFunction"], or
\* [kind |-> "function", returns |-> v], a method that returns v.
Obj(toString) == [type |-> "object", toString |-> toString]

Return(v) == [kind |-> "return", value |-> v]
Throw(name, message) == [kind |-> "throw", name |-> name, message |-> message]
Threw(r) == r.kind = "throw"

\* reflection.js: typeError
typeError ==
  <<"Shescape requires strings or values that can be converted into a string using .toString()">>

\* unix/no-shell.js: unsupportedError
unsupportedError == <<"Quoting is not supported when no shell is used">>

\* The engine's TypeError for calling what is not a function, such as the
\* map property of a value that is no array.
NotAFunction == Throw("TypeError", <<"is not a function">>)

RECURSIVE NumberToString(_)
NumberToString(n) ==
  LET digit == <<"0", "1", "2", "3", "4", "5", "6", "7", "8", "9">>[(n % 10) + 1]
  IN IF n < 10 THEN <<digit>> ELSE Append(NumberToString(n \div 10), digit)

\* reflection.js: isString
IsString(value) == value.type = "string"

\* typeof value.toString, for a value that is neither undefined nor null.
TypeofToString(value) ==
  CASE value.type \in {"number", "boolean", "string"} -> "function"
    [] value.type = "object" ->
         IF value.toString.kind = "function" THEN "function"
         ELSE IF value.toString.kind = "missing" THEN "undefined"
         ELSE "string"

\* value.toString(), for a value whose toString is a function.
CallToString(value) ==
  CASE value.type = "number" -> Str(NumberToString(value.num))
    [] value.type = "boolean" ->
         Str(IF value.bool THEN <<"t", "r", "u", "e">>
             ELSE <<"f", "a", "l", "s", "e">>)
    [] value.type = "string" -> value
    [] value.type = "object" -> value.toString.returns

\* reflection.js: maybeToString
MaybeToString(value) ==
  IF value = Undefined \/ value = Null THEN Null
  ELSE IF TypeofToString(value) # "function" THEN Null
  ELSE LET maybeStr == CallToString(value)
       IN IF IsString(maybeStr) THEN maybeStr ELSE Null

\* reflection.js: checkedToString
CheckedToString(value) ==
  IF IsString(value) THEN Return(value)
  ELSE LET maybeStr == MaybeToString(value)
       IN IF maybeStr = Null THEN Throw("TypeError", typeError)
          ELSE Return(maybeStr)

----------------------------------------------------------------------------
(* Objects with own and inherited properties: options, process.env *)

Absent == [has |-> "absent", value |-> Undefined]
Own(v) == [has |-> "own", value |-> v]
Inherited(v) == [has |-> "inherited", value |-> v]

\* reflection.js: hasOwn
HasOwn(object, property) == object[property].has = "own"

\* object.property, read through the prototype chain.
Get(object, property) == object[property].value

\* Whether a value is truthy.
Truthy(v) ==
  CASE v.type \in {"undefined", "null"} -> FALSE
    [] v.type = "boolean" -> v.bool
    [] v.type = "number" -> v.num # 0
    [] v.type = "string" -> v.str # <<>>
    [] OTHER -> TRUE

----------------------------------------------------------------------------
(* The dialect functions, named by module and function *)

\* options.js: noShell, a Symbol() that equals no string.
noShell == "Symbol()"

\* win.js: binCmd, binPowerShell; unix.js: binBash, binCsh, binDash, binZsh
binCmd == "cmd.exe"
binPowerShell == "powershell.exe"
binBash == "bash"
binCsh == "csh"
binDash == "dash"
binZsh == "zsh"

\* String.prototype.toLowerCase, on the base names of the model.
ToLowerCase(name) ==
  CASE name = "CMD.EXE" -> "cmd.exe"
    [] name = "PowerShell.exe" -> "powershell.exe"
    [] OTHER -> name

\* win/no-shell.js is not among the sources: escaping without a shell strips
\* the control characters and nothing else, and its flag protection strips
\* what the flag protection of the Windows shells strips.
WinNoShellEscapeArg(arg) == RemoveLoneCR(RemoveChars(arg, ControlChars))

WinNoShellStripFlagPrefix(arg) ==
  IF arg # <<>> /\ arg[1] = "-" THEN Drop(arg, LeadingRun(arg, {"-"}))
  ELSE IF arg # <<>> /\ arg[1] = "/" THEN Drop(arg, LeadingRun(arg, {"/"}))
  ELSE arg

\* Calling the function named f on the string arg; calling undefined raises
\* the engine's TypeError.
CallFunction(f, arg) ==
  CASE f = "unix/dash.escapeArg" -> Return(DashEscapeArg(arg))
    [] f = "unix/dash.escapeArgForQuoted" -> Return(DashEscapeArgForQuoted(arg))
    [] f = "unix/dash.quoteArg" -> Return(DashQuoteArg(arg))
    [] f = "unix/dash.stripFlagPrefix" -> Return(DashStripFlagPrefix(arg))
    [] f = "unix/zsh.escapeArg" -> Return(ZshEscapeArg(arg))
    [] f = "unix/zsh.escapeArgForQuoted" -> Return(ZshEscapeArgForQuoted(arg))
    [] f = "unix/zsh.quoteArg" -> Return(ZshQuoteArg(arg))
    [] f = "unix/zsh.stripFlagPrefix" -> Return(ZshStripFlagPrefix(arg))
    [] f = "unix/csh.escapeArg" -> Return(CshEscapeArg(arg))
    [] f = "unix/csh.escapeArgForQuoted" -> Return(CshEscapeArgForQuoted(arg))
    [] f = "unix/csh.quoteArg" -> Return(CshQuoteArg(arg))
    [] f = "unix/csh.stripFlagPrefix" -> Return(CshStripFlagPrefix(arg))
    [] f = "unix/no-shell.escapeArg" -> Return(NoShellEscapeArg(arg))
    [] f = "unix/no-shell.unsupported" -> Throw("Error", unsupportedError)
    [] f = "unix/no-shell.stripFlagPrefix" -> Return(NoShellStripFlagPrefix(arg))
    [] f = "win/cmd.escapeArg" -> Return(CmdEscapeArg(arg))
    [] f = "win/cmd.escapeArgForQuoted" -> Return(CmdEscapeArgForQuoted(arg))
    [] f = "win/cmd.quoteArg" -> Return(CmdQuoteArg(arg))
    [] f = "win/cmd.stripFlagPrefix" -> Return(CmdStripFlagPrefix(arg))
    [] f = "win/powershell.escapeArg" -> Return(PowerShellEscapeArg(arg))
    [] f = "win/powershell.escapeArgForQuoted" ->
         Return(PowerShellEscapeArgForQuoted(arg))
    [] f = "win/powershell.quoteArg" -> Return(PowerShellQuoteArg(arg))
    [] f = "win/powershell.stripFlagPrefix" ->
         Return(PowerShellStripFlagPrefix(arg))
    [] f = "win/no-shell.escapeArg" -> Return(WinNoShellEscapeArg(arg))
    [] f = "win/no-shell.unsupported" -> Throw("Error", unsupportedError)
    [] f = "win/no-shell.stripFlagPrefix" -> Return(WinNoShellStripFlagPrefix(arg))
    [] f = "undefined" -> NotAFunction

\* win.js: getEscapeFunction, getQuoteFunction, getFlagProtectionFunction,
\* isShellSupported.  A function that returns undefined returns "undefined",
\* and <<>> where a pair of functions is expected.
WinGetEscapeFunction(shellName) ==
  IF shellName = noShell THEN "win/no-shell.escapeArg"
  ELSE CASE ToLowerCase(shellName) = binCmd -> "win/cmd.escapeArg"
         [] ToLowerCase(shellName) = binPowerShell -> "win/powershell.escapeArg"
         [] OTHER -> "undefined"

WinGetQuoteFunction(shellName) ==
  IF shellName = noShell
  THEN <<"win/no-shell.unsupported", "win/no-shell.unsupported">>
  ELSE CASE ToLowerCase(shellName) = binCmd ->
              <<"win/cmd.escapeArgForQuoted", "win/cmd.quoteArg">>
         [] ToLowerCase(shellName) = binPowerShell ->
              <<"win/powershell.escapeArgForQuoted", "win/powershell.quoteArg">>
         [] OTHER -> <<>>

WinGetFlagProtectionFunction(shellName) ==
  IF shellName = noShell THEN "win/no-shell.stripFlagPrefix"
  ELSE CASE ToLowerCase(shellName) = binCmd -> "win/cmd.stripFlagPrefix"
         [] ToLowerCase(shellName) = binPowerShell ->
              "win/powershell.stripFlagPrefix"
         [] OTHER -> "undefined"

WinIsShellSupported(shellName) == WinGetEscapeFunction(shellName) # "undefined"

\* unix.js: the switch of getEscapeFunction, getQuoteFunction and
\* getFlagProtectionFunction over the shell names.  unix/bash.js is not among
\* the sources: its functions are named and never called, the machines of the
\* model holding no bash.
UnixEscapeFunctionByName(shellName) ==
  CASE shellName = binBash -> "unix/bash.escapeArg"
    [] shellName = binCsh -> "unix/csh.escapeArg"
    [] shellName = binDash -> "unix/dash.escapeArg"
    [] shellName = binZsh -> "unix/zsh.escapeArg"
    [] OTHER -> "undefined"

UnixQuoteFunctionByName(shellName) ==
  CASE shellName = binBash -> <<"unix/bash.escapeArgForQuoted", "unix/bash.quoteArg">>
    [] shellName = binCsh -> <<"unix/csh.escapeArgForQuoted", "unix/csh.quoteArg">>
    [] shellName = binDash -> <<"unix/dash.escapeArgForQuoted", "unix/dash.quoteArg">>
    [] shellName = binZsh -> <<"unix/zsh.escapeArgForQuoted", "unix/zsh.quoteArg">>
    [] OTHER -> <<>>

UnixFlagProtectionFunctionByName(shellName) ==
  CASE shellName = binBash -> "unix/bash.stripFlagPrefix"
    [] shellName = binCsh -> "unix/csh.stripFlagPrefix"
    [] shellName = binDash -> "unix/dash.stripFlagPrefix"
    [] shellName = binZsh -> "unix/zsh.stripFlagPrefix"
    [] OTHER -> "undefined"

\* The instance-based unix.js is not among the sources: as on Windows, the
\* "no shell" identity selects the shell-less functions before the switch,
\* and a shell is supported when it has an escape function.
UnixGetEscapeFunction(shellName) ==
  IF shellName = noShell THEN "unix/no-shell.escapeArg"
  ELSE UnixEscapeFunctionByName(shellName)

UnixGetQuoteFunction(shellName) ==
  IF shellName = noShell
  THEN <<"unix/no-shell.unsupported", "unix/no-shell.unsupported">>
  ELSE UnixQuoteFunctionByName(shellName)

UnixGetFlagProtectionFunction(shellName) ==
  IF shellName = noShell THEN "unix/no-shell.stripFlagPrefix"
  ELSE UnixFlagProtectionFunctionByName(shellName)

UnixIsShellSupported(shellName) == UnixGetEscapeFunction(shellName) # "undefined"

----------------------------------------------------------------------------
(* Shell resolution *)

\* path.basename and path.win32.basename
Basename(path) == IF path = <<>> THEN "" ELSE path[Len(path)]

\* The executables of the machines of the model.
UnixExecutables ==
  {<<"bin", "sh">>, <<"bin", "dash">>, <<"bin", "zsh">>, <<"bin", "csh">>,
   <<"usr", "bin", "fish">>}

WinExecutables ==
  {<<"C:", "Windows", "System32", "cmd.exe">>,
   <<"C:", "Windows", "System32", "CMD.EXE">>,
   <<"C:", "Windows", "System32", "WindowsPowerShell", "v1.0", "powershell.exe">>,
   <<"C:", "Program Files", "PowerShell", "7", "pwsh.exe">>}

Executables == UnixExecutables \cup WinExecutables

\* The executables of the machine that holds the executable p.
Machine(p) == IF p \in WinExecutables THEN WinExecutables ELSE UnixExecutables

\* What the file system can answer about an executable: which finds a file
\* of that name (whatever the case of its letters) or throws, the file it
\* names exists or not, and readlink names a file of the machine or throws.
FileSystems(executable) ==
  LET found == {q \in Executables :
                  ToLowerCase(Basename(q)) = ToLowerCase(Basename(executable))}
  IN {[which |-> Throw("Error", <<"not found">>), exists |-> FALSE,
       readlink |-> Throw("Error", <<"EINVAL">>)]}
     \cup UNION {{[which |-> Return(p), exists |-> e, readlink |-> r] :
                     e \in BOOLEAN,
                     r \in {Throw("Error", <<"EINVAL">>)}
                             \cup {Return(q) : q \in Machine(p)}} : p \in found}

\* executables.js: notFoundError
notFoundError(executable) == <<"No executable could be found for">> \o executable

\* executables.js: resolveExecutable, the path it hands to which.
WhichPath(env) ==
  IF HasOwn(env, "PATH") THEN Get(env, "PATH")
  ELSE IF HasOwn(env, "Path") THEN Get(env, "Path")
  ELSE Undefined

\* resolveExecutable without its link read: what which found is returned.
ResolveExecutableIgnoringLink(env, executable, fs) ==
  IF Threw(fs.which) THEN Throw("Error", notFoundError(executable))
  ELSE IF ~fs.exists THEN Throw("Error", notFoundError(executable))
  ELSE Return(fs.which.value)

\* executables.js: resolveExecutable, with the answers fs of the file system.
ResolveExecutable(env, executable, fs) ==
  LET path == IF HasOwn(env, "PATH") THEN Get(env, "PATH")
              ELSE IF HasOwn(env, "Path") THEN Get(env, "Path")
              ELSE Undefined
  IN
  IF Threw(fs.which) THEN Throw("Error", notFoundError(executable))
  ELSE IF ~fs.exists THEN Throw("Error", notFoundError(executable))
  ELSE IF Threw(fs.readlink) THEN Return(fs.which.value)
  ELSE Return(fs.readlink.value)

\* getDefaultShell without its look at ComSpec.
WinGetDefaultShellCmd(env) == Str(<<binCmd>>)

\* win.js: getDefaultShell
WinGetDefaultShell(env) ==
  LET ComSpec == IF HasOwn(env, "ComSpec") THEN Get(env, "ComSpec") ELSE Undefined
  IN IF ComSpec # Undefined THEN ComSpec ELSE Str(<<binCmd>>)

\* unix.js: getDefaultShell
UnixGetDefaultShell(env) == Str(<<"bin", "sh">>)

\* win.js: getShellName
WinGetShellName(env, shell, fs) ==
  LET resolved == ResolveExecutable(env, shell.str, fs)
  IN IF Threw(resolved) THEN resolved ELSE Return(Basename(resolved.value))

\* The instance-based unix.js is not among the sources: as on Windows, the
\* shell name is the base name of the resolved executable.
UnixGetShellName(env, shell, fs) ==
  LET resolved == ResolveExecutable(env, shell.str, fs)
  IN IF Threw(resolved) THEN resolved ELSE Return(Basename(resolved.value))

\* platforms.js: cygwin, msys, win32
cygwin == <<"c", "y", "g", "w", "i", "n">>
msys == <<"m", "s", "y", "s">>
win32 == "win32"

\* isWindow reading env.OSTYPE through the prototype chain.
IsWindowByAnyOstype(env, platform) ==
  LET osType == Get(env, "OSTYPE")
  IN osType = Str(cygwin) \/ osType = Str(msys) \/ platform = win32

\* platforms.js: isWindow
IsWindow(env, platform) ==
  LET osType == IF HasOwn(env, "OSTYPE") THEN Get(env, "OSTYPE") ELSE Undefined
  IN osType = Str(cygwin) \/ osType = Str(msys) \/ platform = win32

\* platforms.js: getHelpersByPlatform
GetHelpersByPlatform(env, platform) ==
  IF IsWindow(env, platform) THEN "win" ELSE "unix"

GetDefaultShell(helpers, env) ==
  IF helpers = "win" THEN WinGetDefaultShell(env) ELSE UnixGetDefaultShell(env)

GetShellName(helpers, env, shell, fs) ==
  IF helpers = "win" THEN WinGetShellName(env, shell, fs)
  ELSE UnixGetShellName(env, shell, fs)

IsShellSupported(helpers, shellName) ==
  IF helpers = "win" THEN WinIsShellSupported(shellName)
  ELSE UnixIsShellSupported(shellName)

GetEscapeFunction(helpers, shellName) ==
  IF helpers = "win" THEN WinGetEscapeFunction(shellName)
  ELSE UnixGetEscapeFunction(shellName)

GetQuoteFunction(helpers, shellName) ==
  IF helpers = "win" THEN WinGetQuoteFunction(shellName)
  ELSE UnixGetQuoteFunction(shellName)

GetFlagProtectionFunction(helpers, shellName) ==
  IF helpers = "win" THEN WinGetFlagProtectionFunction(shellName)
  ELSE UnixGetFlagProtectionFunction(shellName)

\* options.js: unsupportedError
unsupportedShellError(shellName) ==
  <<"Shescape does not support the shell", shellName>>

\* parseOptions with flag protection disabled by default, as the 1.x line
\* had it.
ParseFlagProtectionDefaultOff(options) ==
  LET flagProtection ==
        IF HasOwn(options, "flagProtection") THEN Get(options, "flagProtection")
        ELSE Undefined
  IN IF flagProtection = Undefined THEN FALSE
     ELSE IF Truthy(flagProtection) THEN TRUE ELSE FALSE

\* options.js: parseOptions, the flag protection it settles on.
ParseFlagProtection(options) ==
  LET flagProtection ==
        IF HasOwn(options, "flagProtection") THEN Get(options, "flagProtection")
        ELSE Undefined
  IN IF flagProtection = Undefined THEN TRUE
     ELSE IF Truthy(flagProtection) THEN TRUE ELSE FALSE

\* parseOptions reading options.shell through the prototype chain.
ParseShellNameByAnyShell(env, options, helpers, fs) ==
  LET shell0 == Get(options, "shell")
      shell == IF ~IsString(shell0) THEN GetDefaultShell(helpers, env) ELSE shell0
  IN IF shell0 # Bool(FALSE) THEN GetShellName(helpers, env, shell, fs)
     ELSE Return(noShell)

\* options.js: parseOptions, the shell name it settles on.  The file system
\* is asked only when a shell is resolved.
ParseShellName(env, options, helpers, fs) ==
  LET shell0 == IF HasOwn(options, "shell") THEN Get(options, "shell") ELSE Undefined
      shell == IF ~IsString(shell0) THEN GetDefaultShell(helpers, env) ELSE shell0
  IN IF shell0 # Bool(FALSE) THEN GetShellName(helpers, env, shell, fs)
     ELSE Return(noShell)

\* options.js: parseOptions
ParseOptions(env, options, helpers, fs) ==
  LET flagProtection == ParseFlagProtection(options)
      shellName == ParseShellName(env, options, helpers, fs)
  IN IF Threw(shellName) THEN shellName
     ELSE IF ~IsShellSupported(helpers, shellName.value)
     THEN Throw("Error", unsupportedShellError(shellName.value))
     ELSE Return([flagProtection |-> flagProtection, shellName |-> shellName.value])

\* resolveExecutable reading the link before it checks that the file
\* exists.
ResolveExecutableFsCallsLinkFirst(fs) ==
  IF Threw(fs.which) THEN <<"which">>
  ELSE <<"which", "readlink", "exists">>

\* executables.js: resolveExecutable, the calls it makes to the file system:
\* which, then exists if which found a file, then readlink if it exists.
ResolveExecutableFsCalls(fs) ==
  IF Threw(fs.which) THEN <<"which">>
  ELSE IF ~fs.exists THEN <<"which", "exists">>
  ELSE <<"which", "exists", "readlink">>

\* getShellName of either table: one call of resolveExecutable.
GetShellNameFsCalls(helpers, fs) == ResolveExecutableFsCalls(fs)

\* parseOptions resolving a shell whatever the option says.
ParseOptionsFsCallsAlways(options, helpers, fs) ==
  GetShellNameFsCalls(helpers, fs)

\* options.js: parseOptions, the calls it makes to the file system: those
\* of getShellName, unless the shell option is false.
ParseOptionsFsCalls(options, helpers, fs) ==
  LET shell == IF HasOwn(options, "shell") THEN Get(options, "shell") ELSE Undefined
  IN IF shell # Bool(FALSE) THEN GetShellNameFsCalls(helpers, fs) ELSE <<>>

----------------------------------------------------------------------------
(* index.js: the Shescape class *)

\* The functions of fs applied in turn to arg, as the closures
\* (arg) => flagProtect(escape(arg)) and (arg) => quote(escape(arg)) do.
RECURSIVE Pipe(_, _)
Pipe(fs, arg) ==
  IF fs = <<>> THEN Return(arg)
  ELSE LET r == CallFunction(Head(fs), arg)
       IN IF Threw(r) THEN r ELSE Pipe(Tail(fs), r.value)

\* No instance: the constructor was not called, or it threw.
NoInstance == [state |-> "none"]

\* index.js: Shescape.constructor.  The instance holds _escape and _quote;
\* helpers, flagProtection and shellName are the constructor's constants,
\* kept beside them to state properties with.
ShescapeConstructor(env, platform, options, fs) ==
  LET helpers == GetHelpersByPlatform(env, platform)
      parsed == ParseOptions(env, options, helpers, fs)
  IN IF Threw(parsed) THEN parsed
     ELSE LET flagProtection == parsed.value.flagProtection
              shellName == parsed.value.shellName
              escape == GetEscapeFunction(helpers, shellName)
              flagProtect == GetFlagProtectionFunction(helpers, shellName)
              pair == GetQuoteFunction(helpers, shellName)
          IN IF pair = <<>>
             THEN Throw("TypeError", <<"undefined is not iterable">>)
             ELSE Return([state |-> "ready",
                          helpers |-> helpers,
                          flagProtection |-> flagProtection,
                          shellName |-> shellName,
                          _escape |-> IF flagProtection THEN <<escape, flagProtect>>
                                      ELSE <<escape>>,
                          _quote |-> IF flagProtection
                                     THEN <<pair[1], flagProtect, pair[2]>>
                                     ELSE <<pair[1], pair[2]>>])

\* The string result of a pipe, as a JavaScript value.
StrResult(r) == IF Threw(r) THEN r ELSE Return(Str(r.value))

\* index.js: Shescape.escape
ShescapeEscape(this, arg) ==
  LET argAsString == CheckedToString(arg)
  IN IF Threw(argAsString) THEN argAsString
     ELSE StrResult(Pipe(this._escape, argAsString.value.str))

\* quote without checkedToString: the argument goes to the dialect functions
\* as it is, and a value that is no string has no replace method.
ShescapeQuoteUnchecked(this, arg) ==
  IF IsString(arg) THEN StrResult(Pipe(this._quote, arg.str))
  ELSE IF this._quote[1] \in {"unix/no-shell.unsupported", "win/no-shell.unsupported"}
  THEN Throw("Error", unsupportedError)
  ELSE NotAFunction

\* index.js: Shescape.quote
ShescapeQuote(this, arg) ==
  LET argAsString == CheckedToString(arg)
  IN IF Threw(argAsString) THEN argAsString
     ELSE StrResult(Pipe(this._quote, argAsString.value.str))

\* A map that skips the elements on which the callback throws.
MapResultsSkipping(results) ==
  Return(Arr([i \in 1..Len(SelectSeq(results, LAMBDA r : ~Threw(r))) |->
                SelectSeq(results, LAMBDA r : ~Threw(r))[i].value]))

\* Array.prototype.map with a callback that may throw: the first element on
\* which the callback throws ends the call with what it threw.
MapResults(results) ==
  IF \E i \in 1..Len(results) : Threw(results[i])
  THEN results[CHOOSE i \in 1..Len(results) :
                 /\ Threw(results[i])
                 /\ \A j \in 1..(i - 1) : ~Threw(results[j])]
  ELSE Return(Arr([i \in 1..Len(results) |-> results[i].value]))

\* args.map, for args that is no array: null and undefined have no
\* properties, and no other value of the model has a map method.
MapOfNonArray(args) ==
  IF args = Undefined \/ args = Null
  THEN Throw("TypeError", <<"Cannot read properties of", args.type>>)
  ELSE NotAFunction

\* escapeAll with one double-quote tracker for the whole array: for CMD an
\* element that follows elements with an odd number of double quotes is
\* escaped as if it began between double quotes.
ShescapeEscapeAllSharedTracker(this, args) ==
  IF args.type # "array" THEN MapOfNonArray(args)
  ELSE MapResults([i \in 1..Len(args.elems) |->
         LET before == {j \in 1..(i - 1) :
                          /\ args.elems[j].type = "string"
                          /\ Len(SelectSeq(args.elems[j].str,
                                           LAMBDA c : c = "\"")) % 2 = 1}
         IN IF /\ this._escape[1] = "win/cmd.escapeArg"
               /\ args.elems[i].type = "string"
               /\ Cardinality(before) % 2 = 1
            THEN Return(Str(CmdEscapeArgStartingQuoted(args.elems[i].str)))
            ELSE ShescapeEscape(this, args.elems[i])])

\* index.js: Shescape.escapeAll
ShescapeEscapeAll(this, args) ==
  IF args.type # "array" THEN MapOfNonArray(args)
  ELSE MapResults([i \in 1..Len(args.elems) |-> ShescapeEscape(this, args.elems[i])])

\* index.js: Shescape.quoteAll
ShescapeQuoteAll(this, args) ==
  IF args.type # "array" THEN MapOfNonArray(args)
  ELSE MapResults([i \in 1..Len(args.elems) |-> ShescapeQuote(this, args.elems[i])])

----------------------------------------------------------------------------
(* testing.js: the test stub of Shescape *)

\* No stub: the test built none.
NoStub == [state |-> "none"]

\* testing.js: Shescape.constructor.  It keeps options.shell, read through
\* the prototype chain.
StubConstructor(options) == [state |-> "ready", shell |-> Get(options, "shell")]

\* testing.js: Shescape.escape
StubEscape(this, arg) == CheckedToString(arg)

\* testing.js: Shescape.escapeAll
StubEscapeAll(this, args) ==
  IF args.type # "array" THEN MapOfNonArray(args)
  ELSE MapResults([i \in 1..Len(args.elems) |-> StubEscape(this, args.elems[i])])

\* testing.js: Shescape.quote
StubQuote(this, arg) ==
  IF this.shell = Bool(FALSE) THEN Throw("Error", <<>>)
  ELSE StubEscape(this, arg)

\* testing.js: Shescape.quoteAll
StubQuoteAll(this, args) ==
  IF args.type # "array" THEN MapOfNonArray(args)
  ELSE MapResults([i \in 1..Len(args.elems) |-> StubQuote(this, args.elems[i])])

----------------------------------------------------------------------------
(* The function-based API of the 1.x line, on Unix *)

\* The executables of a machine that also holds bash.
LegacyExecutables == UnixExecutables \cup {<<"bin", "bash">>}

LegacyFileSystems(executable) ==
  [which : {Throw("Error", <<"not found">>)}
             \cup {Return(p) : p \in {q \in LegacyExecutables :
                                        Basename(q) = Basename(executable)}},
   exists : BOOLEAN,
   readlink : {Throw("Error", <<"EINVAL">>)}
                \cup {Return(p) : p \in LegacyExecutables}]

\* executables.js of the 1.x line: resolveExecutable, which returns the
\* executable as given when which cannot find it, and what which found
\* when no file exists there.
LegacyResolveExecutable(executable, fs) ==
  IF Threw(fs.which) THEN executable
  ELSE IF ~fs.exists THEN fs.which.value
  ELSE IF Threw(fs.readlink) THEN fs.which.value
  ELSE fs.readlink.value

\* unix.js of the 1.x line: getEscapeFunction, getQuoteFunction
LegacyGetEscapeFunction(shellName) ==
  CASE shellName = binBash -> "legacy/unix.escapeArgBash"
    [] shellName = binDash -> "legacy/unix.escapeArgDash"
    [] shellName = binZsh -> "legacy/unix.escapeArgZsh"
    [] OTHER -> "null"

LegacyGetQuoteFunction(shellName) ==
  CASE shellName \in {binBash, binDash, binZsh} -> "legacy/unix.quoteArg"
    [] OTHER -> "null"

\* unix.js of the 1.x line: getDefaultShell
LegacyGetDefaultShell == <<"bin", "sh">>

\* getShellName without its fallback: the base name of what was resolved.
LegacyGetShellNameAsResolved(shell, fs) ==
  Basename(LegacyResolveExecutable(shell, fs))

\* unix.js of the 1.x line: getShellName
LegacyGetShellName(shell, fs) ==
  LET shellName == Basename(LegacyResolveExecutable(shell, fs))
  IN IF LegacyGetEscapeFunction(shellName) = "null" THEN binBash ELSE shellName

\* Calling the escape function named f.
LegacyCallEscape(f, arg, interpolation, quoted) ==
  CASE f = "legacy/unix.escapeArgBash" -> LegacyEscapeArgBash(arg, interpolation, quoted)
    [] f = "legacy/unix.escapeArgDash" -> LegacyEscapeArgDash(arg, interpolation, quoted)
    [] f = "legacy/unix.escapeArgZsh" -> LegacyEscapeArgZsh(arg, interpolation, quoted)

\* main.js of the 1.x line: isStringable
IsStringable(value) ==
  IF value = Undefined \/ value = Null THEN FALSE
  ELSE IF TypeofToString(value) # "function" THEN FALSE
  ELSE IsString(CallToString(value))

\* main.js of the 1.x line: parseArgs, the shell name it settles on.
LegacyParseShellName(options, fs) ==
  LET shell == IF IsString(options.shell) THEN options.shell.str
               ELSE LegacyGetDefaultShell
  IN LegacyGetShellName(shell, fs)

\* main.js of the 1.x line: escape
LegacyEscape(arg, interpolation, quoted, shellName) ==
  IF ~IsStringable(arg) THEN Throw("TypeError", typeError)
  ELSE LET argAsString == CallToString(arg).str
           escape == LegacyGetEscapeFunction(shellName)
       IN IF escape = "null" THEN NotAFunction
          ELSE Return(LegacyCallEscape(escape, argAsString, interpolation, quoted))

\* main.js of the 1.x line: quote, reached from quoteShellArg
LegacyQuoteShellArg(arg, options, fs) ==
  LET shellName == LegacyParseShellName(options, fs)
      escapedArg == LegacyEscape(arg, FALSE, TRUE, shellName)
      quote == LegacyGetQuoteFunction(shellName)
  IN IF Threw(escapedArg) THEN escapedArg
     ELSE IF quote = "null" THEN NotAFunction
     ELSE Return(Str(LegacyQuoteArg(escapedArg.value)))

----------------------------------------------------------------------------
(* The function-based API of the 1.x line, on Windows *)

\* arg.replace(/\r?\n|\r/gu, " "): every line ending a space.
LegacyNewlinesToSpace(arg) ==
  ReplaceEach(arg, LAMBDA s, i :
    IF s[i] = "CR" /\ i < Len(s) /\ s[i + 1] = "LF" THEN <<>>
    ELSE IF s[i] \in {"CR", "LF"} THEN <<"SP">>
    ELSE <<s[i]>>)

\* win.js of the 1.x line: escapeArgCmd
LegacyWinEscapeArgCmd(arg, interpolation, quoted) ==
  LET result == LegacyNewlinesToSpace(RemoveChars(arg, ControlChars))
  IN IF interpolation
     THEN PrefixChars(PrefixChars(result, {"^"}, "^"),
                      {"\"", "&", "<", ">", "|"}, "^")
     ELSE IF quoted THEN PrefixChars(result, {"\""}, "\"")
     ELSE result

\* win.js of the 1.x line: escapeArgPowerShell
LegacyWinEscapeArgPowerShell(arg, interpolation, quoted) ==
  LET s1 == RemoveChars(arg, ControlChars)
      s2 == PrefixChars(s1, {"BT"}, "BT")
      s3 == PrefixChars(s2, {"$"}, "BT")
      result == RemoveLoneCR(s3)
  IN IF interpolation
     THEN LET t1 == LegacyNewlinesToSpace(result)
              \* /(^|[\s\u0085])([*1-6]?)(>)/gu -> "$1$2`$3"
              t2 == ReplaceEach(t1, LAMBDA s, i :
                      IF s[i] = ">"
                         /\ \/ i = 1
                            \/ s[i - 1] \in PowerShellWhitespace
                            \/ /\ s[i - 1] \in PowerShellRedirectPrefix
                               /\ (i = 2 \/ s[i - 2] \in PowerShellWhitespace)
                      THEN <<"BT", ">">> ELSE <<s[i]>>)
              t3 == PrefixCharsAtWordStart(t2, {"#", "-", ":", "<", "@", "]"},
                                           PowerShellWhitespace, "BT")
          IN PrefixChars(t3, {"\"", "&", "'", "(", ")", ",", ";", "{", "|", "}",
                              "LSQ", "RSQ", "LOWSQ", "REVSQ", "LDQ", "RDQ",
                              "LOWDQ"}, "BT")
     ELSE IF quoted
     THEN ReplaceEach(result, LAMBDA s, i :
            IF s[i] \in {"\"", "LDQ", "RDQ", "LOWDQ"} THEN <<s[i], s[i]>>
            ELSE <<s[i]>>)
     ELSE result

\* win.js of the 1.x line: quoteArg
LegacyWinQuoteArg(arg) == <<"\"">> \o arg \o <<"\"">>

\* win.js of the 1.x line: getDefaultShell, which reads ComSpec by
\* destructuring, through the prototype chain.
LegacyWinGetDefaultShell(env) ==
  LET ComSpec == Get(env, "ComSpec")
  IN IF ComSpec # Undefined THEN ComSpec ELSE Str(<<binCmd>>)

\* win.js of the 1.x line: getEscapeFunction, getQuoteFunction
LegacyWinGetEscapeFunction(shellName) ==
  CASE shellName = binCmd -> "legacy/win.escapeArgCmd"
    [] shellName = binPowerShell -> "legacy/win.escapeArgPowerShell"
    [] OTHER -> "null"

LegacyWinGetQuoteFunction(shellName) ==
  CASE shellName \in {binCmd, binPowerShell} -> "legacy/win.quoteArg"
    [] OTHER -> "null"

\* win.js of the 1.x line: getShellName
LegacyWinGetShellName(shell, fs) ==
  LET shellName == Basename(LegacyResolveExecutable(shell, fs))
  IN IF LegacyWinGetEscapeFunction(shellName) = "null" THEN binCmd ELSE shellName

\* main.js of the 1.x line: parseArgs on Windows, the shell it resolves.
LegacyWinShell(env, options) ==
  IF IsString(options.shell) THEN options.shell.str
  ELSE LegacyWinGetDefaultShell(env).str

\* main.js of the 1.x line: quoteShellArg with the helpers of win.js
LegacyWinQuoteShellArg(arg, env, options, fs) ==
  LET shellName == LegacyWinGetShellName(LegacyWinShell(env, options), fs)
      escape == LegacyWinGetEscapeFunction(shellName)
      quote == LegacyWinGetQuoteFunction(shellName)
  IN IF ~IsStringable(arg) THEN Throw("TypeError", typeError)
     ELSE IF escape = "null" \/ quote = "null" THEN NotAFunction
     ELSE Return(Str(LegacyWinQuoteArg(
            IF escape = "legacy/win.escapeArgCmd"
            THEN LegacyWinEscapeArgCmd(CallToString(arg).str, FALSE, TRUE)
            ELSE LegacyWinEscapeArgPowerShell(CallToString(arg).str, FALSE, TRUE))))

----------------------------------------------------------------------------
(* index.js of the action: the git message of a commit *)

\* String.prototype.split(sep) for a one-unit separator: the parts of s
\* between the separators, at least one part.
RECURSIVE Split(_, _)
Split(s, sep) ==
  IF \E i \in 1..Len(s) : s[i] = sep
  THEN LET i == CHOOSE i \in 1..Len(s) :
                  s[i] = sep /\ \A j \in 1..(i - 1) : s[j] # sep
       IN <<SubSeq(s, 1, i - 1)>> \o Split(SubSeq(s, i + 1, Len(s)), sep)
  ELSE <<s>>

\* A join that leaves the separator out.
RECURSIVE JoinBare(_, _)
JoinBare(parts, sep) ==
  IF parts = <<>> THEN <<>> ELSE Head(parts) \o JoinBare(Tail(parts), sep)

\* Array.prototype.join(sep): the parts with sep between them.
RECURSIVE Join(_, _)
Join(parts, sep) ==
  IF parts = <<>> THEN <<>>
  ELSE IF Len(parts) = 1 THEN Head(parts)
  ELSE Head(parts) \o <<sep>> \o Join(Tail(parts), sep)

\* The options index.js builds its instance with.
ActionOptions == [flagProtection |-> Absent, shell |-> Own(Bool(TRUE))]

\* `git log --format=%B -n 1 `
GitLog ==
  <<"g", "i", "t", "SP", "l", "o", "g", "SP", "-", "-", "f", "o", "r", "m",
    "a", "t", "=", "%", "B", "SP", "-", "n", "SP", "1", "SP">>

\* The callback index.js hands to exec: an error is thrown on, and is
\* caught by nothing; otherwise the three outputs are set from stdout.
ExecCallback(command, err, stdout) ==
  IF err # Null
  THEN [status |-> "uncaught", command |-> command]
  ELSE LET lines == Split(stdout, "LF")
           title == Head(lines)
           body == Join(Tail(lines), "LF")
       IN [status |-> "done", command |-> command,
           gitMessage |-> stdout, title |-> title, body |-> body]

\* index.js: the instance, the sha from the input or from GITHUB_SHA, the
\* quoted sha in the command, and the callback; what the try block throws
\* goes to core.setFailed.
GitMessageAction(platform, env, fs, input, githubSha, err, stdout) ==
  LET constructed == ShescapeConstructor(env, platform, ActionOptions, fs)
      sha == IF Truthy(input) THEN input ELSE githubSha
      quoted == ShescapeQuote(constructed.value, sha)
  IN IF Threw(constructed)
     THEN [status |-> "failed", message |-> constructed.message]
     ELSE IF Threw(quoted)
     THEN [status |-> "failed", message |-> quoted.message]
     ELSE ExecCallback(GitLog \o quoted.value.str, err, stdout)

----------------------------------------------------------------------------
(* The inputs of the model *)

\* Every code unit the model names.
Tokens ==
  {"a", "x", "-", "/", "'", "\"", "\\", "$", "~", "#", "=", ":", "!", "%", "^",
   "&", "|", "<", ">", "(", ")", "*", "?", "[", "]", "{", "}", ",", ".", ";",
   "@", "1", "7", "BT", "NUL", "BS", "ESC", "CSI", "CR", "LF", "TAB", "SP",
   "NBSP", "NEL", "agrave", "LSQ", "RSQ", "LOWSQ", "REVSQ", "LDQ", "RDQ",
   "LOWDQ", "D83E", "DD20"}

UnixCore == {"a", "-", "'", "NUL", "LF"}
UnixFull == UnixCore \cup {"CR", "\\", "$", "~", "#", "SP", "!"}

WinCore == {"a", "-", "/", "\"", "SP", "%"}
WinFull == WinCore \cup {"NUL", "CR", "LF", "\\", "BT", "'", "LSQ"}

\* The worked inputs of the documentation: "&& ls", "it's", "--verbose",
\* "a&b" and "O'Brien", and U+1F920, a character of two code units.
Scenarios ==
  {<<"&", "&", "SP", "l", "s">>, <<"i", "t", "'", "s">>,
   <<"-", "-", "v", "e", "r", "b", "o", "s", "e">>, <<"a", "&", "b">>,
   <<"O", "'", "B", "r", "i", "e", "n">>, <<"D83E", "DD20">>}

\* The strings handed to the functions of a platform: every code unit
\* alone, the strings over the full alphabet up to MaxPair, the strings
\* over the core alphabet up to MaxLen, and the worked inputs.
Strings(helpers) ==
  StrUpTo(Tokens, 1)
    \cup StrUpTo(IF helpers = "win" THEN WinFull ELSE UnixFull, MaxPair)
    \cup StrUpTo(IF helpers = "win" THEN WinCore ELSE UnixCore, MaxLen)
    \cup Scenarios

\* The values that are no strings: with and without a toString method, the
\* method returning a string or not.
NonStrings ==
  {Undefined, Null, Bool(TRUE), Num(7), Num(17),
   Obj([kind |-> "missing"]), Obj([kind |-> "notFunction"]),
   Obj([kind |-> "function", returns |-> Str(<<"-", "a">>)]),
   Obj([kind |-> "function", returns |-> Num(7)]),
   Obj([kind |-> "function", returns |-> Null])}

Values(helpers) == {Str(s) : s \in Strings(helpers)} \cup NonStrings

\* The elements of the arrays handed to escapeAll and quoteAll.
Elements ==
  {Str(<<"a">>), Str(<<"-", "'">>), Num(7), Null, Obj([kind |-> "missing"])}

RECURSIVE SeqsUpTo(_, _)
SeqsUpTo(S, n) ==
  IF n = 0 THEN {<<>>}
  ELSE LET shorter == SeqsUpTo(S, n - 1)
       IN shorter \cup {Append(s, e) : s \in shorter, e \in S}

Arrays == {Arr(elems) : elems \in SeqsUpTo(Elements, MaxArr)}

\* What escapeAll and quoteAll are handed: arrays, and values that are none.
ArrayArguments ==
  Arrays \cup {Arr(<<Str(<<"\"">>), Str(<<"&">>)>>),
               Str(<<"a">>), Undefined, Null, Num(7),
               Obj([kind |-> "function", returns |-> Str(<<"-", "a">>)])}

Platforms == {"win32", "linux"}

\* process.env: OSTYPE, ComSpec, PATH and Path, own, inherited or absent.
Environments ==
  [OSTYPE : {Absent, Own(Str(cygwin)), Own(Str(msys)), Inherited(Str(cygwin)),
             Own(Str(<<"l", "i", "n", "u", "x">>))},
   ComSpec : {Absent,
              Own(Str(<<"C:", "Program Files", "PowerShell", "7", "pwsh.exe">>)),
              Inherited(Str(<<"powershell.exe">>))},
   PATH : {Absent, Own(Str(<<"bin">>)), Inherited(Str(<<"tmp">>))},
   Path : {Absent, Own(Str(<<"usr", "bin">>))}]

\* The options handed to the constructor; the options left out are absent.
Options ==
  [flagProtection : {Absent, Own(Bool(TRUE)), Own(Bool(FALSE)), Own(Undefined),
                     Own(Num(0)), Inherited(Bool(FALSE))},
   shell : {Absent, Own(Bool(FALSE)), Own(Bool(TRUE)), Inherited(Bool(FALSE)),
            Own(Undefined), Own(Null), Own(Num(7)), Own(Str(<<>>)),
            Own(Str(<<"bin", "dash">>)), Own(Str(<<"zsh">>)),
            Own(Str(<<"bin", "csh">>)), Own(Str(<<"fish">>)),
            Own(Str(<<"cmd.exe">>)), Own(Str(<<"powershell.exe">>))}]

\* The executable the constructor resolves, if it resolves one.
ShellToResolve(env, platform, options) ==
  LET helpers == GetHelpersByPlatform(env, platform)
      shell == IF HasOwn(options, "shell") THEN Get(options, "shell") ELSE Undefined
  IN IF IsString(shell) THEN shell.str ELSE GetDefaultShell(helpers, env).str

\* The options handed to the function-based API.
LegacyOptions ==
  [shell : {Undefined, Str(<<"bin", "bash">>), Str(<<"dash">>), Str(<<"bin", "zsh">>),
            Str(<<"bin", "csh">>)}]

LegacyWinOptions ==
  [shell : {Undefined, Str(<<"cmd.exe">>), Str(<<"powershell.exe">>),
            Str(<<"C:", "Program Files", "PowerShell", "7", "pwsh.exe">>),
            Str(<<>>)}]

----------------------------------------------------------------------------
(* The state machine *)

\* shescape: the instance the program holds, or NoInstance.
\* stub: the test stub built from the same options, or NoStub.
\* call: the call in progress with its arguments and its outcome, or Idle.
\* fsLog: the calls made to the file system for the instance, from the
\* start of its construction on.
VARIABLES shescape, stub, call, fsLog

vars == <<shescape, stub, call, fsLog>>

Idle == [op |-> "idle"]

Init ==
  /\ shescape = NoInstance
  /\ stub = NoStub
  /\ call = Idle
  /\ fsLog = <<>>

\* new Shescape(options), and the stub of the program's tests built from
\* the same options.
Construct ==
  /\ call = Idle
  /\ shescape = NoInstance
  /\ stub = NoStub
  /\ \E platform \in Platforms, env \in Environments, options \in Options :
       \E fs \in FileSystems(ShellToResolve(env, platform, options)) :
         LET result == ShescapeConstructor(env, platform, options, fs)
         IN /\ call' = [op |-> "new", platform |-> platform, env |-> env,
                        options |-> options,
                        helpers |-> GetHelpersByPlatform(env, platform),
                        fs |-> fs,
                        executable |-> ShellToResolve(env, platform, options),
                        path |-> WhichPath(env),
                        resolved |-> ResolveExecutable(env,
                                       ShellToResolve(env, platform, options), fs),
                        shellName |-> ParseShellName(env, options,
                                        GetHelpersByPlatform(env, platform), fs),
                        result |-> IF Threw(result) THEN result ELSE Return("this")]
            /\ shescape' = IF Threw(result) THEN NoInstance ELSE result.value
            /\ stub' = StubConstructor(options)
            /\ fsLog' = fsLog \o ParseOptionsFsCalls(options,
                                   GetHelpersByPlatform(env, platform), fs)

\* The program drops its instance, and its tests their stub.
Discard ==
  /\ call = Idle
  /\ stub # NoStub
  /\ shescape' = NoInstance
  /\ stub' = NoStub
  /\ fsLog' = <<>>
  /\ UNCHANGED call

\* shescape.escape(arg)
Escape ==
  /\ call = Idle
  /\ shescape # NoInstance
  /\ \E arg \in Values(shescape.helpers) :
       call' = [op |-> "escape", arg |-> arg, result |-> ShescapeEscape(shescape, arg)]
  /\ UNCHANGED <<shescape, stub, fsLog>>

\* shescape.escapeAll(args)
EscapeAll ==
  /\ call = Idle
  /\ shescape # NoInstance
  /\ \E args \in ArrayArguments :
       call' = [op |-> "escapeAll", arg |-> args,
                result |-> ShescapeEscapeAll(shescape, args)]
  /\ UNCHANGED <<shescape, stub, fsLog>>

\* shescape.quote(arg)
Quote ==
  /\ call = Idle
  /\ shescape # NoInstance
  /\ \E arg \in Values(shescape.helpers) :
       call' = [op |-> "quote", arg |-> arg, result |-> ShescapeQuote(shescape, arg)]
  /\ UNCHANGED <<shescape, stub, fsLog>>

\* shescape.quoteAll(args)
QuoteAll ==
  /\ call = Idle
  /\ shescape # NoInstance
  /\ \E args \in ArrayArguments :
       call' = [op |-> "quoteAll", arg |-> args,
                result |-> ShescapeQuoteAll(shescape, args)]
  /\ UNCHANGED <<shescape, stub, fsLog>>

\* quote(arg, options) of the function-based API, by a program that builds
\* no instance.
LegacyQuote ==
  /\ call = Idle
  /\ shescape = NoInstance
  /\ stub = NoStub
  /\ \E arg \in Values("unix"), options \in LegacyOptions :
       \E fs \in LegacyFileSystems(IF IsString(options.shell) THEN options.shell.str
                                   ELSE LegacyGetDefaultShell) :
         call' = [op |-> "legacy.quote", arg |-> arg, options |-> options,
                  fs |-> fs,
                  executable |-> IF IsString(options.shell) THEN options.shell.str
                                 ELSE LegacyGetDefaultShell,
                  resolved |-> LegacyResolveExecutable(
                                 IF IsString(options.shell) THEN options.shell.str
                                 ELSE LegacyGetDefaultShell, fs),
                  shellName |-> LegacyParseShellName(options, fs),
                  result |-> LegacyQuoteShellArg(arg, options, fs)]
  /\ UNCHANGED <<shescape, stub, fsLog>>

\* quote(arg, options) of the function-based API on Windows.
LegacyWinQuote ==
  /\ call = Idle
  /\ shescape = NoInstance
  /\ stub = NoStub
  /\ \E arg \in {Str(s) : s \in StrUpTo(WinFull, 1) \cup StrUpTo(WinCore, MaxPair)}
                \cup NonStrings,
        env \in {e \in Environments : e.OSTYPE = Absent /\ e.PATH = Absent},
        options \in LegacyWinOptions :
       \E fs \in FileSystems(LegacyWinShell(env, options)) :
         call' = [op |-> "legacy.win.quote", arg |-> arg, env |-> env,
                  options |-> options, fs |-> fs,
                  executable |-> LegacyWinShell(env, options),
                  resolved |-> LegacyResolveExecutable(
                                 LegacyWinShell(env, options), fs),
                  shellName |-> LegacyWinGetShellName(
                                  LegacyWinShell(env, options), fs),
                  result |-> LegacyWinQuoteShellArg(arg, env, options, fs)]
  /\ UNCHANGED <<shescape, stub, fsLog>>

\* The values the tests hand to the stub's escape and quote.
StubValues ==
  NonStrings \cup {Str(<<>>), Str(<<"a">>), Str(<<"-", "'">>)}

\* stub.escape(arg)
TestEscape ==
  /\ call = Idle
  /\ stub # NoStub
  /\ \E arg \in StubValues :
       call' = [op |-> "stub.escape", arg |-> arg, result |-> StubEscape(stub, arg)]
  /\ UNCHANGED <<shescape, stub, fsLog>>

\* stub.escapeAll(args)
TestEscapeAll ==
  /\ call = Idle
  /\ stub # NoStub
  /\ \E args \in ArrayArguments :
       call' = [op |-> "stub.escapeAll", arg |-> args,
                result |-> StubEscapeAll(stub, args)]
  /\ UNCHANGED <<shescape, stub, fsLog>>

\* stub.quote(arg)
TestQuote ==
  /\ call = Idle
  /\ stub # NoStub
  /\ \E arg \in StubValues :
       call' = [op |-> "stub.quote", arg |-> arg, result |-> StubQuote(stub, arg)]
  /\ UNCHANGED <<shescape, stub, fsLog>>

\* stub.quoteAll(args)
TestQuoteAll ==
  /\ call = Idle
  /\ stub # NoStub
  /\ \E args \in ArrayArguments :
       call' = [op |-> "stub.quoteAll", arg |-> args,
                result |-> StubQuoteAll(stub, args)]
  /\ UNCHANGED <<shescape, stub, fsLog>>

\* What git log prints: lines of "a", up to MaxLen units.
Stdouts == StrUpTo({"a", "LF"}, MaxLen)

\* A run of the action, from its start to the end of the callback.
RunAction ==
  /\ call = Idle
  /\ shescape = NoInstance
  /\ stub = NoStub
  /\ \E platform \in Platforms, env \in Environments,
        input \in {Str(<<>>), Str(<<"7">>)},
        githubSha \in {Undefined, Str(<<"a">>)},
        err \in {Null, Obj([kind |-> "missing"])},
        stdout \in Stdouts :
       \E fs \in FileSystems(ShellToResolve(env, platform, ActionOptions)) :
         call' = [op |-> "action", input |-> input, githubSha |-> githubSha,
                  err |-> err, stdout |-> stdout,
                  outcome |-> GitMessageAction(platform, env, fs, input,
                                               githubSha, err, stdout)]
  /\ UNCHANGED <<shescape, stub, fsLog>>

\* The call returns or throws to its caller.
Return_ ==
  /\ call # Idle
  /\ call' = Idle
  /\ UNCHANGED <<shescape, stub, fsLog>>

Next ==
  \/ Construct
  \/ Discard
  \/ Escape
  \/ EscapeAll
  \/ Quote
  \/ QuoteAll
  \/ LegacyQuote
  \/ LegacyWinQuote
  \/ TestEscape
  \/ TestEscapeAll
  \/ TestQuote
  \/ TestQuoteAll
  \/ RunAction
  \/ Return_

Spec == Init /\ [][Next]_vars

----------------------------------------------------------------------------
(* Properties *)

\* The call in progress is op, on a string.
OnString(op) == call.op = op /\ call.arg.type = "string"

\* The instance as the constructor builds it with flag protection disabled.
WithoutFlagProtection(this) ==
  [this EXCEPT !.flagProtection = FALSE,
               !._escape = <<this._escape[1]>>,
               !._quote = <<this._quote[1], this._quote[Len(this._quote)]>>]

\* s begins with a unit of cs.
BeginsWith(s, cs) == s # <<>> /\ s[1] \in cs

\* C1: with flag protection enabled, escape for Dash, Zsh, csh and without
\* a shell never returns a string that begins with "-": it returns what it
\* returns with flag protection disabled, less the whole leading run of
\* "-".  With flag protection disabled, the leading run of "-" of the
\* argument is still at the start of the result.
C1_FlagProtectionStripsDashes ==
  (/\ OnString("escape")
   /\ shescape._escape[1] \in {"unix/dash.escapeArg", "unix/zsh.escapeArg",
                               "unix/csh.escapeArg", "unix/no-shell.escapeArg"})
  => LET s == call.arg.str
         unprotected == ShescapeEscape(WithoutFlagProtection(shescape), call.arg)
         n == LeadingRun(s, {"-"})
     IN /\ call.result.kind = "return"
        /\ unprotected.kind = "return"
        /\ IF shescape.flagProtection
           THEN /\ ~BeginsWith(call.result.value.str, {"-"})
                /\ \E k \in 0..Len(unprotected.value.str) :
                     /\ \A i \in 1..k : unprotected.value.str[i] = "-"
                     /\ call.result.value.str =
                          SubSeq(unprotected.value.str, k + 1,
                                 Len(unprotected.value.str))
           ELSE /\ Len(call.result.value.str) >= n
                /\ \A i \in 1..n : call.result.value.str[i] = "-"

\* C1's case: escape("--a") for Dash with flag protection returns "a".
C1_Witness ==
  /\ call.op = "escape"
  /\ shescape._escape = <<"unix/dash.escapeArg", "unix/dash.stripFlagPrefix">>
  /\ call.arg = Str(<<"-", "-", "a">>)
  /\ call.result = Return(Str(<<"a">>))

\* C2: with flag protection enabled, for CMD and PowerShell, the result of
\* escape, and the text that quote wraps, begins with neither "-" nor "/".
C2_NoFlagPrefixOnWindows ==
  (/\ call.op \in {"escape", "quote"}
   /\ call.arg.type = "string"
   /\ shescape.flagProtection
   /\ shescape._escape[1] \in {"win/cmd.escapeArg", "win/powershell.escapeArg"})
  => LET text == IF call.op = "escape" THEN call.result.value.str
                 ELSE Pipe(SubSeq(shescape._quote, 1, 2), call.arg.str).value
     IN ~BeginsWith(text, {"-", "/"})

\* The units of an escaped string read left to right, a backslash escaping
\* the unit after it.
RECURSIVE EscapedUnits(_, _)
EscapedUnits(out, i) ==
  IF i > Len(out) THEN <<>>
  ELSE IF out[i] = "\\" /\ i < Len(out)
    THEN <<[char |-> out[i + 1], escaped |-> TRUE]>> \o EscapedUnits(out, i + 2)
  ELSE <<[char |-> out[i], escaped |-> FALSE]>> \o EscapedUnits(out, i + 1)

\* The metacharacters of Dash, and those Zsh adds.
Metacharacters(escape) ==
  {"\\", "\"", "$", "&", "'", "(", ")", "*", ";", "<", ">", "?", "BT", "|",
   "TAB", "SP"}
    \cup (IF escape = "unix/zsh.escapeArg" THEN {"[", "]", "{", "}"} ELSE {})

\* The metacharacters at the start of a word.
WordStartMetacharacters(escape) ==
  {"#", "~"} \cup (IF escape = "unix/zsh.escapeArg" THEN {"="} ELSE {})

\* C3: in what escape returns for Dash and Zsh, flag protection disabled,
\* every metacharacter follows an escaping backslash, "#" and "~" (and "="
\* for Zsh) when they start the string or follow whitespace; and with the
\* escaping backslashes removed the result is the argument without its
\* control characters and carriage returns, each line feed a space.
C3_MetacharactersEscaped ==
  (/\ OnString("escape")
   /\ shescape._escape \in {<<"unix/dash.escapeArg">>, <<"unix/zsh.escapeArg">>})
  => LET s == call.arg.str
         units == EscapedUnits(call.result.value.str, 1)
         kept == SelectSeq(s, LAMBDA c : c \notin {"NUL", "BS", "ESC", "CSI", "CR"})
     IN /\ call.result.kind = "return"
        /\ \A k \in 1..Len(units) :
             /\ units[k].char \in Metacharacters(shescape._escape[1])
                  => units[k].escaped
             /\ (/\ units[k].char \in WordStartMetacharacters(shescape._escape[1])
                 /\ (k = 1 \/ units[k - 1].char \in JsWhitespace))
                  => units[k].escaped
        /\ Len(units) = Len(kept)
        /\ \A k \in 1..Len(units) :
             units[k].char = IF kept[k] = "LF" THEN "SP" ELSE kept[k]

\* C3's case: escape(" #") for Dash returns "\ \#".
C3_Witness ==
  /\ call.op = "escape"
  /\ shescape._escape = <<"unix/dash.escapeArg">>
  /\ call.arg = Str(<<"SP", "#">>)
  /\ call.result = Return(Str(<<"\\", "SP", "\\", "#">>))

\* A string read by the POSIX rules for single quotes: the text between two
\* quotes is literal and a backslash before a quote, outside quotes, is a
\* literal quote; ok when the string is one well-formed token.
RECURSIVE PosixRead(_, _, _)
PosixRead(out, i, quoted) ==
  IF i > Len(out) THEN [ok |-> ~quoted, token |-> <<>>]
  ELSE IF quoted
    THEN IF out[i] = "'" THEN PosixRead(out, i + 1, FALSE)
         ELSE LET rest == PosixRead(out, i + 1, TRUE)
              IN [ok |-> rest.ok, token |-> <<out[i]>> \o rest.token]
  ELSE IF out[i] = "'" THEN PosixRead(out, i + 1, TRUE)
  ELSE IF out[i] = "\\" /\ i < Len(out) /\ out[i + 1] = "'"
    THEN LET rest == PosixRead(out, i + 2, FALSE)
         IN [ok |-> rest.ok, token |-> <<"'">> \o rest.token]
  ELSE [ok |-> FALSE, token |-> <<>>]

\* A quote, then cleaned with each quote replaced by the four characters
\* '\'' , then a quote.
SingleQuoted(cleaned) ==
  <<"'">>
    \o Flat([i \in 1..Len(cleaned) |->
               IF cleaned[i] = "'" THEN <<"'", "\\", "'", "'">> ELSE <<cleaned[i]>>])
    \o <<"'">>

\* quote returned the single-quoted form of cleaned, which reads as cleaned.
QuotedAs(cleaned) ==
  /\ call.result = Return(Str(SingleQuoted(cleaned)))
  /\ PosixRead(call.result.value.str, 1, FALSE) = [ok |-> TRUE, token |-> cleaned]

DashOrZshQuote ==
  /\ OnString("quote")
  /\ shescape._quote \in {<<"unix/dash.escapeArgForQuoted", "unix/dash.quoteArg">>,
                          <<"unix/zsh.escapeArgForQuoted", "unix/zsh.quoteArg">>}

LegacyBashQuote == OnString("legacy.quote") /\ call.shellName = binBash

C5_NoControlCharacters ==
  (/\ call.op \in {"escape", "quote"}
   /\ call.arg.type = "string"
   /\ shescape._escape[1] \in
        {"unix/dash.escapeArg", "unix/zsh.escapeArg", "unix/csh.escapeArg",
         "unix/no-shell.escapeArg", "win/cmd.escapeArg", "win/powershell.escapeArg"})
  => /\ call.op = "escape" => call.result.kind = "return"
     /\ call.result.kind = "return"
          => \A i \in 1..Len(call.result.value.str) :
               call.result.value.str[i] \notin {"NUL", "BS", "ESC", "CSI"}
     /\ LET stripped == RemoveChars(call.arg.str, ControlChars)
        IN RemoveChars(stripped, ControlChars) = stripped

\* C5's case: quote for CMD of U+0000 U+0000 returns the empty string.
C5_Witness ==
  /\ call.op = "quote"
  /\ shescape._escape[1] = "win/cmd.escapeArg"
  /\ call.arg = Str(<<"NUL", "NUL">>)
  /\ call.result = Return(Str(<<>>))

\* C6: on an instance configured with shell: false, every call of quote and
\* of quoteAll raises.
C6_QuotingFailsWithoutShell ==
  (call.op \in {"quote", "quoteAll"} /\ shescape.shellName = noShell)
    => Threw(call.result)

\* The value has a string form: it is a string, or its toString is a
\* function that returns a string.
HasStringForm(v) ==
  \/ v.type \in {"string", "number", "boolean"}
  \/ /\ v.type = "object"
     /\ v.toString.kind = "function"
     /\ v.toString.returns.type = "string"

\* The shell names of the model.
ShellNames == {noShell, binBash} \cup {Basename(p) : p \in Executables}

\* C7: the constructor raises the configuration Error when the resolved
\* shell name has no entry in the dialect table; the escape, quote and
\* flag protection lookups are defined for the same shell names; and a call
\* on a constructed instance raises nothing but the TypeError for an
\* argument without a string form and the Error for quoting under
\* shell: false.
C7_ShellSettledAtConstruction ==
  /\ \A helpers \in {"win", "unix"}, n \in ShellNames :
       /\ (GetEscapeFunction(helpers, n) = "undefined")
            <=> (GetQuoteFunction(helpers, n) = <<>>)
       /\ (GetEscapeFunction(helpers, n) = "undefined")
            <=> (GetFlagProtectionFunction(helpers, n) = "undefined")
  /\ (/\ call.op = "new"
      /\ call.shellName.kind = "return"
      /\ GetEscapeFunction(GetHelpersByPlatform(call.env, call.platform),
                           call.shellName.value) = "undefined")
       => /\ call.result =
               Throw("Error", unsupportedShellError(call.shellName.value))
          /\ shescape = NoInstance
  /\ (call.op = "new" /\ Threw(call.result)) => call.result.name = "Error"
  /\ (call.op \in {"escape", "escapeAll", "quote", "quoteAll"} /\ Threw(call.result))
       => \/ /\ call.result.name = "TypeError"
             /\ IF call.op \in {"escapeAll", "quoteAll"} /\ call.arg.type = "array"
                THEN \E i \in 1..Len(call.arg.elems) :
                       ~HasStringForm(call.arg.elems[i])
                ELSE ~HasStringForm(call.arg)
          \/ /\ call.result = Throw("Error", unsupportedError)
             /\ call.op \in {"quote", "quoteAll"}
             /\ shescape.shellName = noShell

\* Two calls end alike: they return the same value, or raise errors of the
\* same name.
SameOutcome(r1, r2) ==
  IF Threw(r1) THEN Threw(r2) /\ r1.name = r2.name ELSE r1 = r2

\* C8: escapeAll and quoteAll treat an argument that is no array as the
\* array of that one element.
C8_NonArrayIsOneElementArray ==
  (call.op \in {"escapeAll", "quoteAll"} /\ call.arg.type # "array")
    => SameOutcome(call.result,
                   IF call.op = "escapeAll"
                   THEN ShescapeEscapeAll(shescape, Arr(<<call.arg>>))
                   ELSE ShescapeQuoteAll(shescape, Arr(<<call.arg>>)))

\* escape or quote, as escapeAll or quoteAll applies it to one element.
OfElement(v) ==
  IF call.op = "escapeAll" THEN ShescapeEscape(shescape, v)
  ELSE ShescapeQuote(shescape, v)

OnArray == call.op \in {"escapeAll", "quoteAll"} /\ call.arg.type = "array"

\* The result is the array of what escape or quote returns for each element.
Elementwise ==
  /\ call.result.kind = "return"
  /\ call.result.value.type = "array"
  /\ Len(call.result.value.elems) = Len(call.arg.elems)
  /\ \A i \in 1..Len(call.arg.elems) :
       Return(call.result.value.elems[i]) = OfElement(call.arg.elems[i])

\* C9, as amended: for an array whose elements all have a string form,
\* escapeAll returns the array of the same length of what escape returns for
\* each element, and so does quoteAll with quote when quote returns for them;
\* when an element has no string form the call raises and returns nothing:
\* the TypeError, or, for quoteAll under shell: false when the first element
\* has a string form, the Error for quoting without a shell.
C9_ElementwiseOrFirstError ==
  OnArray
  => LET xs == call.arg.elems
     IN /\ (\A i \in 1..Len(xs) : HasStringForm(xs[i]))
             => \/ Elementwise
                \/ /\ call.op = "quoteAll"
                   /\ shescape.shellName = noShell
                   /\ xs # <<>>
                   /\ call.result = Throw("Error", unsupportedError)
        /\ (\E i \in 1..Len(xs) : ~HasStringForm(xs[i]))
             => IF /\ call.op = "quoteAll"
                   /\ shescape.shellName = noShell
                   /\ HasStringForm(xs[1])
                THEN call.result = Throw("Error", unsupportedError)
                ELSE call.result = Throw("TypeError", typeError)

\* C9's case: escapeAll(["a", 7]) for Zsh returns ["a", "7"].
C9_Witness ==
  /\ call.op = "escapeAll"
  /\ shescape._escape[1] = "unix/zsh.escapeArg"
  /\ call.arg = Arr(<<Str(<<"a">>), Num(7)>>)
  /\ call.result = Return(Arr(<<Str(<<"a">>), Str(<<"7">>)>>))

\* C9, as claimed: an array whose elements all have a string form gives the
\* array of what escape or quote returns for each, where they return; an
\* array with an element without a string form gives a TypeError.
C9_ElementwiseOrTypeError ==
  OnArray
  => LET xs == call.arg.elems
     IN /\ (/\ \A i \in 1..Len(xs) : HasStringForm(xs[i])
            /\ \A i \in 1..Len(xs) : ~Threw(OfElement(xs[i])))
             => Elementwise
        /\ (\E i \in 1..Len(xs) : ~HasStringForm(xs[i]))
             => /\ Threw(call.result)
                /\ call.result.name = "TypeError"

\* C10: escape and quote return a string for a string and for a value whose
\* toString returns a string, quote under shell: false raising its Error for
\* them instead; they raise the TypeError for null, undefined, a value
\* without a callable toString and a value whose toString returns no
\* string, under shell: false too.
C10_Stringification ==
  call.op \in {"escape", "quote"}
  => IF ~HasStringForm(call.arg) THEN call.result = Throw("TypeError", typeError)
     ELSE IF call.op = "quote" /\ shescape.shellName = noShell
       THEN call.result = Throw("Error", unsupportedError)
     ELSE /\ call.result.kind = "return"
          /\ call.result.value.type = "string"

\* C10's case: quote(null) under shell: false raises the TypeError.
C10_Witness ==
  /\ call.op = "quote"
  /\ shescape._quote[1] = "unix/no-shell.unsupported"
  /\ call.arg = Null
  /\ call.result = Throw("TypeError", typeError)

\* C11: the flag protection the constructor settles on is a boolean.  It is
\* TRUE when options has no flagProtection property of its own or that
\* property is undefined, and otherwise it is TRUE exactly when the value
\* of the property is truthy.
C11_FlagProtectionNormalized ==
  (call.op = "new" /\ call.result.kind = "return")
  => LET supplied == call.options.flagProtection
     IN /\ shescape.flagProtection \in BOOLEAN
        /\ shescape.flagProtection =
             IF supplied.has # "own" \/ supplied.value.type = "undefined"
             THEN TRUE
             ELSE Truthy(supplied.value)

\* C11's case: new Shescape({ flagProtection: 0 }) settles on FALSE, and
\* the instance applies no flag protection function.
C11_Witness ==
  /\ call.op = "new"
  /\ call.result.kind = "return"
  /\ call.options.flagProtection = Own(Num(0))
  /\ shescape.flagProtection = FALSE
  /\ Len(shescape._escape) = 1

\* s without the units at the places before place i that are not in keep.
RECURSIVE KeepPlaces(_, _, _)
KeepPlaces(s, keep, i) ==
  IF i > Len(s) THEN <<>>
  ELSE (IF i \in keep THEN <<s[i]>> ELSE <<>>) \o KeepPlaces(s, keep, i + 1)

\* C12: without a shell, escape returns the argument less U+0000, U+0008,
\* U+001B and U+009B, then less the carriage returns that no line feed
\* follows, then, with flag protection enabled, less the leading run of
\* "-"; every other unit is kept, in place and unescaped.
C12_NoShellEscape ==
  (OnString("escape") /\ shescape._escape[1] = "unix/no-shell.escapeArg")
  => LET s == call.arg.str
         s1 == KeepPlaces(s, {i \in 1..Len(s) :
                               s[i] \notin {"NUL", "BS", "ESC", "CSI"}}, 1)
         s2 == KeepPlaces(s1, {i \in 1..Len(s1) :
                                ~(s1[i] = "CR" /\ (i = Len(s1) \/ s1[i + 1] # "LF"))}, 1)
         dashes == {n \in 0..Len(s2) : \A i \in 1..n : s2[i] = "-"}
         n == CHOOSE m \in dashes : \A k \in dashes : k <= m
         s3 == IF shescape.flagProtection THEN SubSeq(s2, n + 1, Len(s2)) ELSE s2
     IN call.result = Return(Str(s3))

\* C12's case: escape("--verbose") without a shell and with flag protection
\* returns "verbose".
C12_Witness ==
  /\ call.op = "escape"
  /\ shescape._escape = <<"unix/no-shell.escapeArg", "unix/no-shell.stripFlagPrefix">>
  /\ call.arg = Str(<<"-", "-", "v", "e", "r", "b", "o", "s", "e">>)
  /\ call.result = Return(Str(<<"v", "e", "r", "b", "o", "s", "e">>))

\* The characters CMD gives a meaning to outside double quotes.
CmdSpecialChars == {"%", "&", "<", ">", "^", "|"}

\* The special characters of s from place i on, each with the number of
\* double quotes before it, quotes being that number on reaching i.
RECURSIVE SpecialsOf(_, _, _)
SpecialsOf(s, i, quotes) ==
  IF i > Len(s) THEN <<>>
  ELSE IF s[i] = "\"" THEN SpecialsOf(s, i + 1, quotes + 1)
  ELSE IF s[i] \in CmdSpecialChars
    THEN <<[char |-> s[i], quotes |-> quotes]>> \o SpecialsOf(s, i + 1, quotes)
  ELSE SpecialsOf(s, i + 1, quotes)

\* The special characters of out as CMD reads them: outside double quotes
\* a "^" makes the character after it literal, inside them every unit is
\* literal.  Each comes with whether a "^" escapes it.
RECURSIVE CmdRead(_, _, _)
CmdRead(out, i, quotes) ==
  IF i > Len(out) THEN <<>>
  ELSE IF out[i] = "\"" THEN CmdRead(out, i + 1, quotes + 1)
  ELSE IF quotes % 2 = 0 /\ out[i] = "^" /\ i < Len(out)
    THEN (IF out[i + 1] \in CmdSpecialChars
          THEN <<[char |-> out[i + 1], quotes |-> quotes, caret |-> TRUE]>>
          ELSE <<>>)
         \o CmdRead(out, i + 2, quotes + (IF out[i + 1] = "\"" THEN 1 ELSE 0))
  ELSE IF out[i] \in CmdSpecialChars
    THEN <<[char |-> out[i], quotes |-> quotes, caret |-> FALSE]>>
         \o CmdRead(out, i + 1, quotes)
  ELSE CmdRead(out, i + 1, quotes)

\* C13: escape for CMD emits every %, &, <, >, ^ and | of the argument, in
\* order and after as many double quotes as in the argument, with a "^"
\* before it exactly when the number of double quotes before it is even,
\* and bare when that number is odd.
C13_CmdCaretByQuoteParity ==
  (OnString("escape") /\ shescape._escape[1] = "win/cmd.escapeArg")
  => LET specials == SpecialsOf(call.arg.str, 1, 0)
         emitted == CmdRead(call.result.value.str, 1, 0)
     IN /\ call.result.kind = "return"
        /\ Len(emitted) = Len(specials)
        /\ \A j \in 1..Len(specials) :
             /\ emitted[j].char = specials[j].char
             /\ emitted[j].quotes = specials[j].quotes
             /\ emitted[j].caret <=> (specials[j].quotes % 2 = 0)

\* C13's case: escape("a&b") for CMD returns "a^&b".
C13_Witness ==
  /\ call.op = "escape"
  /\ shescape._escape[1] = "win/cmd.escapeArg"
  /\ call.arg = Str(<<"a", "&", "b">>)
  /\ call.result = Return(Str(<<"a", "^", "&", "b">>))

\* C13's other case: escape of "%" after one double quote leaves it bare.
C13_WitnessQuoted ==
  /\ call.op = "escape"
  /\ shescape._escape[1] = "win/cmd.escapeArg"
  /\ call.arg = Str(<<"\"", "%">>)
  /\ call.result = Return(Str(<<"\\", "\"", "%">>))

\* The single quote and the curly quotes PowerShell reads as one.
SingleQuoteVariants == {"'", "LSQ", "RSQ", "LOWSQ", "REVSQ"}

\* The single quote variants of s from place i on, one for every adjacent
\* identical pair; a variant that is in no such pair gives "unpaired".
RECURSIVE QuotePairs(_, _)
QuotePairs(s, i) ==
  IF i > Len(s) THEN <<>>
  ELSE IF s[i] \notin SingleQuoteVariants THEN QuotePairs(s, i + 1)
  ELSE IF i < Len(s) /\ s[i + 1] = s[i] THEN <<s[i]>> \o QuotePairs(s, i + 2)
  ELSE <<"unpaired">> \o QuotePairs(s, i + 1)

\* C14: quote for PowerShell returns a string between two single quotes, in
\* which the single quote variants stand in adjacent identical pairs only,
\* one pair for every variant of the argument and in the argument's order.
C14_PowerShellQuoteDoubles ==
  (OnString("quote") /\ shescape._quote[1] = "win/powershell.escapeArgForQuoted")
  => /\ call.result.kind = "return"
     /\ LET out == call.result.value.str
            inner == SubSeq(out, 2, Len(out) - 1)
        IN /\ Len(out) >= 2
           /\ out[1] = "'"
           /\ out[Len(out)] = "'"
           /\ QuotePairs(inner, 1) =
                SelectSeq(call.arg.str, LAMBDA c : c \in SingleQuoteVariants)

\* C14's case: quote("O'Brien") for PowerShell returns 'O''Brien'.
C14_Witness ==
  /\ call.op = "quote"
  /\ shescape._quote[1] = "win/powershell.escapeArgForQuoted"
  /\ call.arg = Str(<<"O", "'", "B", "r", "i", "e", "n">>)
  /\ call.result = Return(Str(<<"'", "O", "'", "'", "B", "r", "i", "e", "n", "'">>))

\* The number of units of s that are in cs.
Count(s, cs) == Len(SelectSeq(s, LAMBDA c : c \in cs))

\* The call in progress is quote on a string, for one of the dialects.
QuoteFor(dialects) ==
  /\ OnString("quote")
  /\ shescape._quote[1] \in {d \o ".escapeArgForQuoted" : d \in dialects}

\* The carriage returns and line feeds quote leaves when it removes the
\* control characters and then the carriage returns no line feed follows.
LineEndingsKept(s) ==
  LET s1 == KeepPlaces(s, {i \in 1..Len(s) :
                            s[i] \notin {"NUL", "BS", "ESC", "CSI"}}, 1)
      s2 == KeepPlaces(s1, {i \in 1..Len(s1) :
                             ~(s1[i] = "CR" /\ (i = Len(s1) \/ s1[i + 1] # "LF"))}, 1)
  IN SelectSeq(s2, LAMBDA c : c \in {"CR", "LF"})

\* C15, as amended: quote for Dash, Zsh and PowerShell removes a carriage
\* return only when no line feed follows it and leaves every line feed in
\* place, adding no space; quote for csh and CMD removes every carriage
\* return and puts a space in the place of every line feed.
C15_QuoteLineEndings ==
  QuoteFor({"unix/dash", "unix/zsh", "unix/csh", "win/cmd", "win/powershell"})
  => /\ call.result.kind = "return"
     /\ LET s == call.arg.str
            out == call.result.value.str
        IN IF QuoteFor({"unix/csh", "win/cmd"})
           THEN /\ Count(out, {"CR", "LF"}) = 0
                /\ Count(out, {"SP"}) = Count(s, {"SP", "LF"})
           ELSE /\ SelectSeq(out, LAMBDA c : c \in {"CR", "LF"}) = LineEndingsKept(s)
                /\ Count(out, {"LF"}) = Count(s, {"LF"})
                /\ Count(out, {"SP"}) = Count(s, {"SP"})

\* C15's case: quote of a carriage return and a line feed for Dash keeps
\* both.
C15_Witness ==
  /\ call.op = "quote"
  /\ shescape._quote[1] = "unix/dash.escapeArgForQuoted"
  /\ call.arg = Str(<<"CR", "LF">>)
  /\ call.result = Return(Str(<<"'", "CR", "LF", "'">>))

\* C15, as claimed: quote for Dash, Zsh, csh, CMD and PowerShell keeps every
\* line feed of the argument, replacing none by a space, and keeps every
\* carriage return that a line feed follows.
C15_QuoteKeepsLineFeeds ==
  QuoteFor({"unix/dash", "unix/zsh", "unix/csh", "win/cmd", "win/powershell"})
  => /\ call.result.kind = "return"
     /\ LET s == call.arg.str
            out == call.result.value.str
        IN /\ Count(out, {"LF"}) = Count(s, {"LF"})
           /\ Count(out, {"SP"}) = Count(s, {"SP"})
           /\ Count(out, {"CR"}) >=
                Cardinality({i \in 1..(Len(s) - 1) : s[i] = "CR" /\ s[i + 1] = "LF"})

\* s with one space in the place of every newline sequence: a line feed,
\* with the carriage return before it if there is one.
NewlinesAsSpaces(s) ==
  LET s1 == KeepPlaces(s, {i \in 1..Len(s) :
                            ~(s[i] = "CR" /\ i < Len(s) /\ s[i + 1] = "LF")}, 1)
  IN [i \in 1..Len(s1) |-> IF s1[i] = "LF" THEN "SP" ELSE s1[i]]

\* C16: escape for Dash, Zsh, csh, CMD and PowerShell returns a string
\* with no line feed and no carriage return, with one space for every
\* space and every line feed of the argument, and it returns for the
\* argument what it returns for the argument with a space written in the
\* place of every newline sequence.
C16_EscapeNewlinesAsSpaces ==
  (/\ OnString("escape")
   /\ shescape._escape[1] \in {"unix/dash.escapeArg", "unix/zsh.escapeArg",
                               "unix/csh.escapeArg", "win/cmd.escapeArg",
                               "win/powershell.escapeArg"})
  => /\ call.result.kind = "return"
     /\ LET s == call.arg.str
            out == call.result.value.str
        IN /\ Count(out, {"CR", "LF"}) = 0
           /\ Count(out, {"SP"}) = Count(s, {"SP", "LF"})
           /\ call.result = ShescapeEscape(shescape, Str(NewlinesAsSpaces(s)))

\* C16's case: escape of a carriage return and a line feed for Dash returns
\* one escaped space.
C16_Witness ==
  /\ call.op = "escape"
  /\ shescape._escape[1] = "unix/dash.escapeArg"
  /\ call.arg = Str(<<"CR", "LF">>)
  /\ call.result = Return(Str(<<"\\", "SP">>))

\* What the instance built from the same options does on the argument of
\* the stub's call in progress.
RealOutcome ==
  CASE call.op = "stub.escape" -> ShescapeEscape(shescape, call.arg)
    [] call.op = "stub.escapeAll" -> ShescapeEscapeAll(shescape, call.arg)
    [] call.op = "stub.quote" -> ShescapeQuote(shescape, call.arg)
    [] call.op = "stub.quoteAll" -> ShescapeQuoteAll(shescape, call.arg)

\* Two outcomes of one profile: both errors, or both strings, or both
\* arrays of strings of one length.
SameProfile(r1, r2) ==
  IF Threw(r1) \/ Threw(r2) THEN Threw(r1) /\ Threw(r2)
  ELSE /\ r1.value.type = r2.value.type
       /\ r1.value.type \in {"string", "array"}
       /\ r1.value.type = "array" =>
            /\ Len(r1.value.elems) = Len(r2.value.elems)
            /\ \A i \in 1..Len(r1.value.elems) :
                 /\ r1.value.elems[i].type = "string"
                 /\ r2.value.elems[i].type = "string"

\* The call in progress is a call of the stub, and the constructor of
\* Shescape succeeded on the options the stub was built from.
OnStub ==
  /\ call.op \in {"stub.escape", "stub.escapeAll", "stub.quote", "stub.quoteAll"}
  /\ shescape # NoInstance

\* C17: on every input, a call of the test stub raises an error exactly
\* when the same call of the instance built from the same options raises
\* one, and otherwise both return a string, or arrays of strings of the
\* same length.
C17_StubHasSameProfile ==
  OnStub => SameProfile(call.result, RealOutcome)

\* The divergence of C17 is confined to options that inherit shell: on
\* options whose shell property is their own or absent, the stub and the
\* instance have the same profile.
C17_SameProfileOnOwnShell ==
  (OnStub /\ (stub.shell = Bool(FALSE) => shescape._quote[1] \in
                 {"unix/no-shell.unsupported", "win/no-shell.unsupported"}))
  => SameProfile(call.result, RealOutcome)

\* C18: when git succeeds, the output git-message is stdout; title is
\* stdout up to its first line feed and body is what follows that line
\* feed, so that title, a line feed and body make stdout; when stdout has
\* no line feed, title is stdout and body is empty.
C18_TitleAndBodySplitStdout ==
  (call.op = "action" /\ call.outcome.status = "done")
  => LET stdout == call.stdout
         title == call.outcome.title
         body == call.outcome.body
         feeds == {i \in 1..Len(stdout) : stdout[i] = "LF"}
     IN /\ call.outcome.gitMessage = stdout
        /\ IF feeds = {}
           THEN title = stdout /\ body = <<>>
           ELSE LET first == CHOOSE i \in feeds : \A j \in feeds : i <= j
                IN /\ title = SubSeq(stdout, 1, first - 1)
                   /\ body = SubSeq(stdout, first + 1, Len(stdout))
                   /\ title \o <<"LF">> \o body = stdout

\* C18's case: git prints a line, an empty line and a line feed; title is
\* the line and body the line feed.
C18_Witness ==
  /\ call.op = "action"
  /\ call.outcome.status = "done"
  /\ call.stdout = <<"a", "LF", "LF">>
  /\ call.outcome.title = <<"a">>
  /\ call.outcome.body = <<"LF">>

\* The functions of the Windows table, and those of the Unix table.
WinTable ==
  {d \o f : d \in {"win/cmd", "win/powershell", "win/no-shell"},
            f \in {".escapeArg", ".escapeArgForQuoted", ".quoteArg",
                   ".stripFlagPrefix", ".unsupported"}}

UnixTable ==
  {d \o f : d \in {"unix/bash", "unix/csh", "unix/dash", "unix/zsh", "unix/no-shell"},
            f \in {".escapeArg", ".escapeArgForQuoted", ".quoteArg",
                   ".stripFlagPrefix", ".unsupported"}}

\* C19: the constructor works with the Windows table exactly when the
\* platform is win32 or OSTYPE, as a property of the environment's own, is
\* cygwin or msys, and with the Unix table otherwise; every function of
\* the instance it builds comes from that one table.
C19_HelpersByPlatform ==
  call.op = "new"
  => LET ostype == call.env.OSTYPE
         windows == \/ call.platform = "win32"
                    \/ /\ ostype.has = "own"
                       /\ ostype.value \in {Str(<<"c", "y", "g", "w", "i", "n">>),
                                             Str(<<"m", "s", "y", "s">>)}
         table == IF windows THEN WinTable ELSE UnixTable
     IN /\ call.helpers = (IF windows THEN "win" ELSE "unix")
        /\ call.result.kind = "return" =>
             /\ shescape.helpers = call.helpers
             /\ \A i \in 1..Len(shescape._escape) : shescape._escape[i] \in table
             /\ \A i \in 1..Len(shescape._quote) : shescape._quote[i] \in table

\* C19's case: on linux with OSTYPE msys the instance is built from the
\* Windows table.
C19_Witness ==
  /\ call.op = "new"
  /\ call.platform = "linux"
  /\ call.env.OSTYPE = Own(Str(msys))
  /\ call.result.kind = "return"
  /\ shescape.helpers = "win"
  /\ shescape._escape[1] \in WinTable

\* C19's other case: on linux an inherited OSTYPE selects the Unix table.
C19_WitnessInherited ==
  /\ call.op = "new"
  /\ call.platform = "linux"
  /\ call.env.OSTYPE = Inherited(Str(cygwin))
  /\ call.result.kind = "return"
  /\ shescape.helpers = "unix"

\* C20: the file system is asked at most once for each of the PATH lookup,
\* the existence check and the link read in a construction, and not at all
\* when the shell option is false, the shell then being the no-shell
\* identity; no call of escape, escapeAll, quote or quoteAll asks it
\* anything, however many calls are made.
C20_ResolutionOnlyAtConstruction ==
  /\ [](/\ \A f \in {"which", "exists", "readlink"} : Count(fsLog, {f}) <= 1
        /\ (call.op = "new" /\ call.options.shell = Own(Bool(FALSE)))
             => /\ fsLog = <<>>
                /\ call.shellName = Return(noShell))
  /\ [][call'.op \in {"escape", "escapeAll", "quote", "quoteAll"}
          => fsLog' = fsLog]_vars

\* C20's case: a call of quote on an instance whose construction made the
\* three calls to the file system, which are still the only ones.
C20_Witness ==
  /\ call.op = "quote"
  /\ call.result.kind = "return"
  /\ shescape.shellName # noShell
  /\ fsLog = <<"which", "exists", "readlink">>

\* C20's other case: built with shell: false, the instance is the no-shell
\* one and the file system was not asked.
C20_WitnessNoShell ==
  /\ call.op = "new"
  /\ call.options.shell = Own(Bool(FALSE))
  /\ call.result.kind = "return"
  /\ shescape.shellName = noShell
  /\ fsLog = <<>>

\* The constructor in progress resolved a shell: the shell option is not
\* false.
Resolving == call.op = "new" /\ call.options.shell # Own(Bool(FALSE))

\* C21: when which finds no file, or no file exists where which found
\* one, resolveExecutable raises an Error that names the executable it was
\* asked for, the constructor fails with that error and builds no
\* instance, and the link is not read.
C21_NotFoundIsAnError ==
  (Resolving /\ (Threw(call.fs.which) \/ ~call.fs.exists))
  => /\ call.resolved.kind = "throw"
     /\ call.resolved.name = "Error"
     /\ SubSeq(call.resolved.message, 2, Len(call.resolved.message)) = call.executable
     /\ call.result = call.resolved
     /\ shescape = NoInstance
     /\ Count(fsLog, {"readlink"}) = 0

\* C21's case: which finds powershell.exe, no file exists there, and the
\* constructor fails after the existence check.
C21_Witness ==
  /\ Resolving
  /\ call.executable = <<"powershell.exe">>
  /\ call.fs.which.kind = "return"
  /\ ~call.fs.exists
  /\ call.result.kind = "throw"
  /\ fsLog = <<"which", "exists">>

\* C22: when which finds a file and it exists, resolveExecutable returns
\* what readlink returns, and what which found when readlink throws; the
\* function-based API's resolveExecutable does the same.
C22_LinkReadIsOptional ==
  /\ (Resolving /\ ~Threw(call.fs.which) /\ call.fs.exists)
     => /\ call.resolved =
             (IF Threw(call.fs.readlink) THEN Return(call.fs.which.value)
              ELSE Return(call.fs.readlink.value))
        /\ call.shellName = Return(Basename(call.resolved.value))
        /\ fsLog = <<"which", "exists", "readlink">>
  /\ (call.op = "legacy.quote" /\ ~Threw(call.fs.which) /\ call.fs.exists)
     => call.resolved =
          (IF Threw(call.fs.readlink) THEN call.fs.which.value
           ELSE call.fs.readlink.value)

\* C22's case: readlink throws for /bin/dash, which is no link, and the
\* instance is built for dash.
C22_Witness ==
  /\ Resolving
  /\ call.fs.which = Return(<<"bin", "dash">>)
  /\ call.fs.exists
  /\ Threw(call.fs.readlink)
  /\ call.resolved = Return(<<"bin", "dash">>)
  /\ call.result.kind = "return"
  /\ shescape._escape[1] = "unix/dash.escapeArg"

\* C22's other case: /bin/sh is a link to /bin/dash, and the instance is
\* built for dash.
C22_WitnessLink ==
  /\ Resolving
  /\ call.fs.which = Return(<<"bin", "sh">>)
  /\ call.fs.readlink = Return(<<"bin", "dash">>)
  /\ call.result.kind = "return"
  /\ shescape._escape[1] = "unix/dash.escapeArg"

\* C23: the constructor takes the no-shell identity, and resolves nothing,
\* exactly when the shell option is false.  For any other value that is no
\* string (none, undefined, true, null, a number) it resolves the default
\* shell of the platform: ComSpec if the environment sets it and cmd.exe
\* otherwise on Windows, /bin/sh on Unix.  A string, the empty string
\* too, is resolved as given.
C23_ShellOptionToResolve ==
  call.op = "new"
  => LET option == call.options.shell
         given == IF option.has = "own" THEN option.value ELSE Undefined
         ComSpec == call.env.ComSpec
         default ==
           IF call.helpers = "win"
           THEN (IF ComSpec.has = "own" /\ ComSpec.value.type # "undefined"
                 THEN ComSpec.value.str ELSE <<"cmd.exe">>)
           ELSE <<"bin", "sh">>
         expected == IF given.type = "string" THEN given.str ELSE default
     IN IF given.type = "boolean" /\ given.bool = FALSE
        THEN /\ call.shellName = Return(noShell)
             /\ fsLog = <<>>
        ELSE /\ call.shellName # Return(noShell)
             /\ Head(fsLog) = "which"
             /\ call.executable = expected
             /\ Threw(call.fs.which) =>
                  call.result =
                    Throw("Error", <<"No executable could be found for">> \o expected)
             /\ (~Threw(call.fs.which) /\ call.fs.exists) =>
                  call.shellName = Return(Basename(call.resolved.value))

\* C23's case: with shell: null on Unix the constructor resolves /bin/sh.
C23_Witness ==
  /\ call.op = "new"
  /\ call.options.shell = Own(Null)
  /\ call.helpers = "unix"
  /\ call.executable = <<"bin", "sh">>
  /\ call.fs.which = Return(<<"bin", "sh">>)
  /\ call.result.kind = "return"
  /\ shescape.shellName # noShell

\* C23's other case: the empty string is resolved as given, and is not
\* found.
C23_WitnessEmptyString ==
  /\ call.op = "new"
  /\ call.options.shell = Own(Str(<<>>))
  /\ call.executable = <<>>
  /\ call.result = Throw("Error", <<"No executable could be found for">>)

\* The UTF-8 encoding of the character at place i of s, which is two units
\* long when s holds a high and a low surrogate there.
IsSurrogatePair(s, i) ==
  /\ i < Len(s)
  /\ CodeUnit(s[i]) \in 55296..56319
  /\ CodeUnit(s[i + 1]) \in 56320..57343

Utf8OfCharacter(s, i) ==
  IF IsSurrogatePair(s, i)
  THEN LET cp == 65536 + (CodeUnit(s[i]) - 55296) * 1024 + (CodeUnit(s[i + 1]) - 56320)
       IN <<240 + (cp \div 262144), 128 + ((cp \div 4096) % 64),
            128 + ((cp \div 64) % 64), 128 + (cp % 64)>>
  ELSE Utf8Encode(s[i])

\* The places of s where a character begins whose UTF-8 encoding holds the
\* byte 0xA0.
A0Characters(s) ==
  {i \in 1..Len(s) :
     /\ ~(i > 1 /\ IsSurrogatePair(s, i - 1))
     /\ \E k \in 1..Len(Utf8OfCharacter(s, i)) : Utf8OfCharacter(s, i)[k] = 160}

\* C24: escape for csh puts every character whose UTF-8 encoding holds the
\* byte 0xA0, the characters of two code units too, between two single
\* quotes of its own, and adds no single quote around any other
\* character.
C24_CshQuotesA0Characters ==
  (OnString("escape") /\ shescape._escape[1] = "unix/csh.escapeArg")
  => /\ call.result.kind = "return"
     /\ LET s == call.arg.str
            out == call.result.value.str
        IN /\ Cardinality(A0Characters(out)) = Cardinality(A0Characters(s))
           /\ \A i \in A0Characters(out) :
                LET n == IF IsSurrogatePair(out, i) THEN 2 ELSE 1
                IN /\ i > 1 /\ out[i - 1] = "'"
                   /\ i + n <= Len(out) /\ out[i + n] = "'"
           /\ Count(out, {"'"}) = Count(s, {"'"}) + 2 * Cardinality(A0Characters(s))

\* C24 holds of the characters of one code unit: on arguments without a
\* surrogate pair, escape for csh quotes exactly the characters whose
\* encoding holds 0xA0.
C24_CshQuotesA0CodeUnits ==
  (/\ OnString("escape") /\ shescape._escape[1] = "unix/csh.escapeArg"
   /\ \A i \in 1..Len(call.arg.str) : ~IsSurrogatePair(call.arg.str, i))
  => /\ call.result.kind = "return"
     /\ LET s == call.arg.str
            out == call.result.value.str
        IN /\ Cardinality(A0Characters(out)) = Cardinality(A0Characters(s))
           /\ \A i \in A0Characters(out) :
                /\ i > 1 /\ out[i - 1] = "'"
                /\ i < Len(out) /\ out[i + 1] = "'"
           /\ Count(out, {"'"}) = Count(s, {"'"}) + 2 * Cardinality(A0Characters(s))

\* What the call in progress returns when it is made again on the instance
\* as it now is.
CallAgain ==
  CASE call.op = "escape" -> ShescapeEscape(shescape, call.arg)
    [] call.op = "escapeAll" -> ShescapeEscapeAll(shescape, call.arg)
    [] call.op = "quote" -> ShescapeQuote(shescape, call.arg)
    [] call.op = "quoteAll" -> ShescapeQuoteAll(shescape, call.arg)

OnInstance == call.op \in {"escape", "escapeAll", "quote", "quoteAll"}

LegacyCall == call.op \in {"legacy.quote", "legacy.win.quote"}

\* The base names the function-based API has a dialect for, and the dialect
\* it falls back on.
LegacyDialects ==
  IF call.op = "legacy.quote" THEN {binBash, binDash, binZsh}
  ELSE {binCmd, binPowerShell}

LegacyDefaultDialect == IF call.op = "legacy.quote" THEN binBash ELSE binCmd

\* C26: in the function-based API shell resolution never raises. The shell
\* resolves to the name as given when the lookup fails and to the path
\* looked up when no file exists there; the shell name is the base name of
\* what was resolved when a dialect exists for it and else the default
\* dialect, bash on Unix and cmd.exe on Windows; so quote finds its escape
\* and quote functions and throws for nothing but an argument that cannot
\* be made a string.
C26_LegacyResolutionNeverRaises ==
  LegacyCall
  => /\ Threw(call.fs.which) => call.resolved = call.executable
     /\ (~Threw(call.fs.which) /\ ~call.fs.exists)
          => call.resolved = call.fs.which.value
     /\ call.shellName = IF Basename(call.resolved) \in LegacyDialects
                         THEN Basename(call.resolved)
                         ELSE LegacyDefaultDialect
     /\ call.result # NotAFunction
     /\ Threw(call.result)
          => /\ call.result = Throw("TypeError", typeError)
             /\ ~IsStringable(call.arg)

\* C26: quote for csh, which the lookup did not find, has returned the
\* argument quoted for bash.
C26_Witness ==
  /\ call.op = "legacy.quote"
  /\ call.options.shell = Str(<<"bin", "csh">>)
  /\ Threw(call.fs.which)
  /\ call.resolved = <<"bin", "csh">>
  /\ call.shellName = binBash
  /\ call.arg = Str(<<"-", "'">>)
  /\ call.result = Return(Str(<<"'", "-", "'", "\\", "'", "'", "'">>))

\* C26: on Windows quote for pwsh.exe, found by the lookup where no file
\* exists, has returned the argument quoted for cmd.exe.
C26_WitnessWin ==
  /\ call.op = "legacy.win.quote"
  /\ call.options.shell = Undefined
  /\ ~Threw(call.fs.which) /\ ~call.fs.exists
  /\ call.resolved = <<"C:", "Program Files", "PowerShell", "7", "pwsh.exe">>
  /\ call.shellName = binCmd
  /\ call.arg = Str(<<"\"">>)
  /\ call.result = Return(Str(<<"\"", "\"", "\"", "\"">>))

\* C27: every run of the action that fails to obtain the commit message
\* ends with core.setFailed called: a run sets the three outputs or calls
\* setFailed, and it calls setFailed when git reports an error to the
\* callback.
C27_FailuresReachSetFailed ==
  call.op = "action"
  => /\ call.outcome.status \in {"done", "failed"}
     /\ call.outcome.status = "done" => call.err = Null

\* The quote character of the dialect the instance quotes for: the double
\* quote for CMD, the single quote for PowerShell and the Unix shells.
QuoteCharacter ==
  IF shescape._quote[Len(shescape._quote)] = "win/cmd.quoteArg" THEN "\"" ELSE "'"

\* The call in progress returned a string that begins and ends with the
\* quote character of the dialect, with the argument between them.
Delimited ==
  /\ call.result.kind = "return"
  /\ LET out == call.result.value.str
     IN /\ Len(out) >= 2
        /\ out[1] = QuoteCharacter
        /\ out[Len(out)] = QuoteCharacter

\* C28: for every shell dialect and every string, the empty string too,
\* quote returns a string that is not empty and that begins and ends with
\* the quote character of the dialect.
C28_QuoteReturnsDelimited ==
  (OnString("quote") /\ shescape._quote[Len(shescape._quote)] \notin
      {"unix/no-shell.unsupported", "win/no-shell.unsupported"})
  => Delimited

\* C28 holds of every dialect but CMD, whose quoteArg puts double quotes
\* around the runs of tabs and spaces only.
C28_QuoteDelimitedButForCmd ==
  (/\ OnString("quote")
   /\ shescape._quote[Len(shescape._quote)] \notin {"unix/no-shell.unsupported",
                                 "win/no-shell.unsupported", "win/cmd.quoteArg"})
  => Delimited

\* The characters a flag begins with, for the helpers of the instance.
FlagCharacters == IF shescape.helpers = "win" THEN {"-", "/"} ELSE {"-"}

\* The argument of the call in progress without the control characters and
\* carriage returns that escaping removes.
ArgumentStripped == RemoveChars(call.arg.str, ControlChars \cup {"CR"})

\* What the call in progress returns on the instance built with flag
\* protection disabled.
Unprotected ==
  IF call.op = "escape"
  THEN ShescapeEscape(WithoutFlagProtection(shescape), call.arg)
  ELSE ShescapeQuote(WithoutFlagProtection(shescape), call.arg)

\* C29: for every dialect, escape and quote of a string that, its control
\* characters stripped, begins with no "-" (and no "/" on Windows) return
\* with flag protection enabled what they return with it disabled.
C29_FlagProtectionOnlyOnFlags ==
  (/\ OnString("escape") \/ OnString("quote")
   /\ ~BeginsWith(ArgumentStripped, FlagCharacters))
  => call.result = Unprotected

\* C29 holds but for quote for PowerShell of a string that begins with a
\* backtick and a "-", which stripFlagPrefix removes.
C29_FlagProtectionButForBacktick ==
  (/\ OnString("escape") \/ OnString("quote")
   /\ ~BeginsWith(ArgumentStripped, FlagCharacters)
   /\ ~(/\ call.op = "quote"
         /\ shescape._quote[1] = "win/powershell.escapeArgForQuoted"
         /\ Len(ArgumentStripped) >= 2
         /\ ArgumentStripped[1] = "BT" /\ ArgumentStripped[2] = "-"))
  => call.result = Unprotected

\* An object with the properties it inherits taken away.
OwnOnly(object) ==
  [k \in DOMAIN object |->
     IF object[k].has = "inherited" THEN Absent ELSE object[k]]

\* C30: configuration is read from own properties only. The constructor
\* does on its options and environment what it does on them with every
\* inherited property taken away: same helpers, same shell to resolve,
\* same path for the lookup, same shell name, same flag protection, same
\* outcome. An inherited flagProtection leaves flag protection on, an
\* inherited shell leaves the default shell, and an inherited OSTYPE, PATH
\* or ComSpec is read as undefined.
C30_OwnPropertiesOnly ==
  call.op = "new"
  => LET env == OwnOnly(call.env)
         options == OwnOnly(call.options)
         helpers == GetHelpersByPlatform(env, call.platform)
         again == ShescapeConstructor(env, call.platform, options, call.fs)
     IN /\ call.helpers = helpers
        /\ call.executable = ShellToResolve(env, call.platform, options)
        /\ call.path = WhichPath(env)
        /\ call.shellName = ParseShellName(env, options, helpers, call.fs)
        /\ shescape = IF Threw(again) THEN NoInstance ELSE again.value
        /\ Threw(again) => call.result = again
        /\ (call.options.flagProtection.has = "inherited" /\ shescape # NoInstance)
             => shescape.flagProtection
        /\ call.options.shell.has = "inherited"
             => call.executable = GetDefaultShell(call.helpers, call.env).str
        /\ (call.env.OSTYPE.has = "inherited" /\ call.platform # win32)
             => call.helpers = "unix"
        /\ (call.env.PATH.has = "inherited"
             => call.path = IF HasOwn(call.env, "Path")
                            THEN Get(call.env, "Path") ELSE Undefined)
        /\ (call.env.ComSpec.has = "inherited" /\ call.helpers = "win"
               /\ ~IsString(Get(options, "shell")))
             => call.executable = <<binCmd>>

\* C30: the constructor has returned on options that inherit shell: false
\* and flagProtection: false, in an environment that inherits OSTYPE, PATH
\* and ComSpec; the instance is for cmd.exe, with flag protection on.
C30_Witness ==
  /\ call.op = "new"
  /\ call.platform = win32
  /\ call.options.shell = Inherited(Bool(FALSE))
  /\ call.options.flagProtection = Inherited(Bool(FALSE))
  /\ call.env.OSTYPE.has = "inherited"
  /\ call.env.PATH.has = "inherited"
  /\ call.env.ComSpec.has = "inherited"
  /\ call.path = Undefined
  /\ shescape # NoInstance
  /\ shescape.shellName = binCmd
  /\ shescape.flagProtection

\* C30: on Linux an inherited OSTYPE of cygwin leaves the Unix helpers and
\* an inherited shell: false the default shell, here a link to dash.
C30_WitnessUnix ==
  /\ call.op = "new"
  /\ call.platform # win32
  /\ call.env.OSTYPE = Inherited(Str(cygwin))
  /\ call.options.shell = Inherited(Bool(FALSE))
  /\ call.helpers = "unix"
  /\ call.executable = <<"bin", "sh">>
  /\ shescape # NoInstance
  /\ shescape.shellName = binDash

============================================================================
